---- MODULE Spec2Model ----
(***************************************************************************)
(* A state-machine model of the Paju earthquake-shelter web application:   *)
(*   - the /api/chat serverless handler            (src/unnamed/part_000)  *)
(*   - the AI guide chat screen                    (src/unnamed/part_002)  *)
(*   - the map-script loader and the geocoder      (part_003, part_004)    *)
(*   - both copies of geocodeWithPajuFallback, the evacuation wizard and   *)
(*     the shelter search screen (src/src/components/EvacuationSimulation  *)
(*     .tsx) and the home page search box (src/src/components/HomePage.tsx)*)
(*                                                                         *)
(* Text is modelled as a sequence of characters.  The characters that the  *)
(* code distinguishes are kept: the blank, the syllables of the city name  *)
(* "pa" "ju" "si" (U+D30C U+C8FC U+C2DC), a digit and one other syllable.  *)
(* Coordinates are integers in units of 1/10000 degree.                    *)
(***************************************************************************)
EXTENDS Integers, Sequences, FiniteSets, TLC

VARIABLES
    \* ---- /api/chat handler (one invocation at a time; invocations share nothing)
    req,            \* the request of the current invocation
    hpc,            \* "idle" | "awaitCompletion" | "done"
    bodyRead,       \* whether this invocation evaluated req.body
    groqCalls,      \* requests this invocation passed to groq.chat.completions.create
    responses,      \* responses this invocation sent with res.status(..).json(..)
    completion,     \* what the awaited completion call produced in this invocation
    \* ---- AIGuide screen
    messages,       \* the chat list
    input,          \* the input field
    sends,          \* one record per handleSend that got past the blank check
    fetches,        \* every fetch('/api/chat') issued, in order
    chatInserts,    \* every chatbot_conversations insert built, in order
    \* ---- loadNaverMap.ts (module state, shared by every caller)
    naverMapLoader, \* "null", or the state of the cached promise
    naverLoaded,    \* whether window.naver.maps exists
    keyDefined,     \* whether VITE_NAVER_MAP_KEY_ID is set in the build
    scripts,        \* script elements appended to document.head
    \* ---- geocodeWithPajuFallback calls (either copy), in call order
    tasks,
    \* ---- EvacuationSimulation screen (the four-step wizard)
    step, address, housingType, familySize, magnitude,
    showResults, targetShelter, loadingShelter,
    wpc,            \* where handleStartSimulation is: "idle" | "geo" | "db"
    wgeo,           \* geo, the value findNearestShelter got from the fallback
    lastQuery,      \* what the last shelter_facilities query of the wizard returned
    \* ---- the route, HomePage and the browser's sessionStorage
    page,           \* "home" | "search": the screen the route renders
    homeAddress,    \* searchAddress of HomePage
    sessionStorage, \* the value under key quake_lastSearch: <<>> or <<text>>
    \* ---- ShelterSearch screen
    searchAddress, shelters, filteredShelters, loading, userPos, resultLabel,
    searchMode, lastSearchQuery, initialQuery,
    spc,            \* "unmounted" | "effects" | "query" | "error" | "ok": loadShelters
    shelterQueries, \* shelter_facilities queries this instance issued
    searches,       \* searches[i]: the handleSearchClick call awaiting tasks[i]
    \* ---- the database of the migration, as its API roles reach it
    db,             \* db[t]: the rows of table t
    lastRead,       \* the last SELECT: who asked, the table, the rows returned
    \* ---- App: the router
    pathname,       \* useLocation().pathname
    navArg,         \* the page name of the last handleNavigate call
    navigated,      \* what that call passed to navigate()
    \* ---- the two copies of calcDistanceKm
    distArgs,       \* the two coordinate pairs last given to calcDistanceKm
    distEvac,       \* what the wizard's copy returned for them
    distSearch,     \* what the search screen's copy returned for them
    \* ---- the shelter list of ShelterSearch and the ShelterDetail screen
    viewMode,       \* "list" | "detail"
    selectedShelter,\* <<>> or <<shelter>>
    opened,         \* what the buttons of the detail screen did last
    \* ---- the callers of loadNaverMap, in call order
    awaits          \* awaits[i]: who called, the promise returned, what the await saw

apiVars   == <<req, hpc, bodyRead, groqCalls, responses, completion>>
guideVars == <<messages, input, sends, fetches, chatInserts>>
mapVars   == <<naverMapLoader, naverLoaded, keyDefined, scripts>>
geoVars   == <<mapVars, tasks>>
wizardVars == <<step, address, housingType, familySize, magnitude,
                showResults, targetShelter, loadingShelter, wpc, wgeo, lastQuery>>
searchVars == <<page, homeAddress, sessionStorage, searchAddress, shelters,
                filteredShelters, loading, userPos, resultLabel, searchMode,
                lastSearchQuery, initialQuery, spc, shelterQueries, searches>>
dbVars    == <<db, lastRead>>
routeVars == <<pathname, navArg, navigated>>
distVars  == <<distArgs, distEvac, distSearch>>
detailVars == <<viewMode, selectedShelter, opened>>
loaderVars == <<awaits>>
vars      == <<apiVars, guideVars, geoVars, wizardVars, searchVars, dbVars, routeVars, distVars,
               detailVars, loaderVars>>

\* what the actions of one part leave alone
notApi    == <<guideVars, geoVars, wizardVars, searchVars, dbVars, routeVars, distVars, detailVars,
               loaderVars>>
notGuide  == <<apiVars, geoVars, wizardVars, searchVars, dbVars, routeVars, distVars, detailVars,
               loaderVars>>
notGeo    == <<apiVars, guideVars, wizardVars, searchVars, dbVars, routeVars, distVars, detailVars,
               loaderVars>>
notWizard == <<apiVars, guideVars, searchVars, dbVars, routeVars, distVars, detailVars,
               loaderVars>>
notDb     == <<apiVars, guideVars, geoVars, wizardVars, searchVars, routeVars, distVars, detailVars,
               loaderVars>>
notRoute  == <<apiVars, guideVars, geoVars, wizardVars, searchVars, dbVars, distVars, detailVars,
               loaderVars>>
notDist   == <<apiVars, guideVars, geoVars, wizardVars, searchVars, dbVars, routeVars, detailVars,
               loaderVars>>
notDetail == <<apiVars, guideVars, geoVars, wizardVars, searchVars, dbVars, routeVars, distVars,
               loaderVars>>
notLoader == <<apiVars, guideVars, tasks, wizardVars, searchVars, dbVars, routeVars, distVars,
               detailVars>>

----------------------------------------------------------------------------
(* Text *)

NULL == "<null>"          \* JavaScript null
UNDEFINED == "<undefined>" \* JavaScript undefined

SP == " "

\* All character sequences over cs of length at most n.
Str(cs, n) == UNION {[1..k -> cs] : k \in 0..n}

RECURSIVE TrimLeft(_)
TrimLeft(s) == IF s # <<>> /\ Head(s) = SP THEN TrimLeft(Tail(s)) ELSE s

RECURSIVE TrimRight(_)
TrimRight(s) ==
    IF s # <<>> /\ s[Len(s)] = SP THEN TrimRight(SubSeq(s, 1, Len(s) - 1)) ELSE s

\* String.prototype.trim
Trim(s) == TrimRight(TrimLeft(s))

\* String.prototype.includes
Includes(s, sub) ==
    \E i \in 1..(Len(s) - Len(sub) + 1) : SubSeq(s, i, i + Len(sub) - 1) = sub

----------------------------------------------------------------------------
(* The /api/chat handler *)

MaxMsgs == 2          \* longest client message array

Roles == {"user", "assistant", "system"}
Contents == {"a", "b"}
Msg == [role : Roles, content : Contents]

\* req.body: absent, an object without a messages array, or {messages: [...]}
Bodies ==
    {[kind |-> "undefined", messages |-> <<>>], [kind |-> "noMessages", messages |-> <<>>]}
    \cup {[kind |-> "array", messages |-> m] : m \in Str(Msg, MaxMsgs)}

Methods == {"GET", "POST", "PUT"}
Requests == [method : Methods, body : Bodies]

systemMessage == [role |-> "system", content |-> "PajuSafetyGuide"]

ChatModel == "llama-3.1-8b-instant"
TemperatureTenths == 3
MaxTokens == 512

FallbackReply == "NoAnswerRetryLater"
GroqError == "GroqRequestError"
MethodNotAllowed == "Method not allowed"

MethodAllowedMut(method) == method # "GET"
\* part_000:9  req.method !== 'POST'
MethodAllowed(method) == method = "POST"

ForwardedMessagesMut(msgs) == msgs \o <<systemMessage>>
\* part_000:29  [systemMessage, ...messages]
ForwardedMessages(msgs) == <<systemMessage>> \o msgs

CompletionRequest(msgs) ==
    [model |-> ChatModel, messages |-> ForwardedMessages(msgs),
     temperature |-> TemperatureTenths, max_tokens |-> MaxTokens]

\* What groq.chat.completions.create can produce: it throws, or it returns a
\* completion whose first choice may be absent, lack a message, or carry a
\* content that is null, empty or a text.
Choices ==
    {[hasMessage |-> FALSE, content |-> UNDEFINED]}
    \cup {[hasMessage |-> TRUE, content |-> c] : c \in {UNDEFINED, NULL, "", "answer"}}
Completions ==
    {[thrown |-> TRUE, choices |-> <<>>]}
    \cup {[thrown |-> FALSE, choices |-> cs] : cs \in Str(Choices, 1)}

NoCompletion == [thrown |-> FALSE, choices |-> <<>>]

\* choices[0]?.message?.content
FirstContent(c) ==
    IF c.choices = <<>> THEN UNDEFINED
    ELSE IF ~c.choices[1].hasMessage THEN UNDEFINED
    ELSE c.choices[1].content

ReplyOfMut(c) == FirstContent(c)
\* part_000:34-36  content ?? fallback
ReplyOf(c) ==
    IF FirstContent(c) \in {UNDEFINED, NULL}
    THEN FallbackReply
    ELSE FirstContent(c)

Response(status, key, text) == [status |-> status, key |-> key, text |-> text]

CatchResponseMut == Response(200, "reply", FallbackReply)
\* part_000:39-42
CatchResponse == Response(500, "error", GroqError)

ApiInit ==
    /\ req = [method |-> "GET", body |-> [kind |-> "undefined", messages |-> <<>>]]
    /\ hpc = "idle"
    /\ bodyRead = FALSE
    /\ groqCalls = <<>>
    /\ responses = <<>>
    /\ completion = NoCompletion

\* handler(req, res) up to its first await (or to its end)
HandlerStart(r) ==
    /\ hpc # "awaitCompletion"
    /\ req' = r
    /\ completion' = NoCompletion
    /\ IF ~MethodAllowed(r.method)
       THEN /\ responses' = <<Response(405, "error", MethodNotAllowed)>>
            /\ bodyRead' = FALSE
            /\ groqCalls' = <<>>
            /\ hpc' = "done"
       ELSE /\ bodyRead' = TRUE
            /\ IF r.body.kind # "array"
               THEN \* destructuring undefined, or spreading undefined, throws
                    /\ responses' = <<CatchResponse>>
                    /\ groqCalls' = <<>>
                    /\ hpc' = "done"
               ELSE /\ responses' = <<>>
                    /\ groqCalls' = <<CompletionRequest(r.body.messages)>>
                    /\ hpc' = "awaitCompletion"
    /\ UNCHANGED notApi

\* the continuation of handler after await groq.chat.completions.create
HandlerResume(c) ==
    /\ hpc = "awaitCompletion"
    /\ completion' = c
    /\ responses' =
         IF c.thrown
         THEN Append(responses, CatchResponse)
         ELSE Append(responses, Response(200, "reply", ReplyOf(c)))
    /\ hpc' = "done"
    /\ UNCHANGED <<req, bodyRead, groqCalls>>
    /\ UNCHANGED notApi

ApiNext ==
    \/ \E r \in Requests : HandlerStart(r)
    \/ \E c \in Completions : HandlerResume(c)

----------------------------------------------------------------------------
(* The AI guide screen *)

MaxSends == 2         \* handleSend invocations that pass the blank check

\* texts typed into the input field: empty, blank, and non-blank with and
\* without surrounding blanks
GuideInputs == {<<>>, <<SP>>, <<"ga">>, <<SP, "ga">>, <<"ga", SP>>}

Greeting == <<"Greeting">>
Apology == <<"SorryAIServerProblem">>
AnswerText == <<"answer">>
UndefinedText == <<UNDEFINED>>

\* fresh ids (crypto.randomUUID): the greeting has id 1
UserId(i) == 2 * i
AssistantId(i) == 2 * i + 1

ChatMessage(id, role, content) == [id |-> id, role |-> role, content |-> content]

RequestMessagesMut(history, userMessage) ==
    [k \in 1..Len(history) |-> [role |-> history[k].role, content |-> history[k].content]]
    \o <<[role |-> "user", content |-> userMessage]>>
\* part_002:94-96  the body of the POST
RequestMessages(history, userMessage) == <<[role |-> "user", content |-> userMessage]>>

ThrowsOnStatusMut(ok) == FALSE
\* part_002:99  if (!response.ok) throw
ThrowsOnStatus(ok) == ~ok

\* What fetch settles with: a rejection, or a response that is ok or not
FetchOutcomes == {"networkError", "notOk", "ok"}
\* What response.json() settles with: a rejection, or a body with or without reply
JsonOutcomes == {"parseError", "reply", "noReply"}

GuideInit ==
    /\ messages = <<ChatMessage(1, "assistant", Greeting)>>
    /\ input = <<>>
    /\ sends = <<>>
    /\ fetches = <<>>
    /\ chatInserts = <<>>

\* onChange of the input field, and handleQuickQuestion
SetInput(text) ==
    /\ input' = text
    /\ UNCHANGED <<messages, sends, fetches, chatInserts>>
    /\ UNCHANGED notGuide

\* handleSend up to the await inside getAIResponse
HandleSend ==
    /\ IF Trim(input) = <<>>
       THEN UNCHANGED guideVars
       ELSE /\ Len(sends) < MaxSends
            /\ LET i == Len(sends) + 1 IN
               /\ messages' = Append(messages, ChatMessage(UserId(i), "user", input))
               /\ input' = <<>>
               /\ fetches' = Append(fetches,
                     [url |-> "/api/chat", method |-> "POST",
                      body |-> RequestMessages(messages, input)])
               /\ sends' = Append(sends,
                     [userInput |-> input, pc |-> "fetch",
                      outcome |-> "pending", json |-> "none"])
               /\ UNCHANGED chatInserts
    /\ UNCHANGED notGuide

\* the rest of handleSend once getAIResponse has returned aiReply
FinishSend(i, outcome, json, aiReply) ==
    /\ messages' = Append(messages, ChatMessage(AssistantId(i), "assistant", aiReply))
    /\ chatInserts' = Append(chatInserts,
          [user_message |-> sends[i].userInput, bot_response |-> aiReply])
    /\ sends' = [sends EXCEPT ![i].pc = "done", ![i].outcome = outcome, ![i].json = json]
    /\ UNCHANGED <<input, fetches>>

\* getAIResponse after await fetch(...)
FetchSettle(i, outcome) ==
    /\ i \in 1..Len(sends)
    /\ sends[i].pc = "fetch"
    /\ IF outcome = "networkError" \/ ThrowsOnStatus(outcome = "ok")
       THEN FinishSend(i, outcome, "none", Apology)
       ELSE /\ sends' = [sends EXCEPT ![i].pc = "json", ![i].outcome = outcome]
            /\ UNCHANGED <<messages, input, fetches, chatInserts>>
    /\ UNCHANGED notGuide

\* getAIResponse after await response.json()
JsonSettle(i, outcome) ==
    /\ i \in 1..Len(sends)
    /\ sends[i].pc = "json"
    /\ CASE outcome = "parseError" -> FinishSend(i, sends[i].outcome, outcome, Apology)
         [] outcome = "reply"      -> FinishSend(i, sends[i].outcome, outcome, AnswerText)
         [] outcome = "noReply"    -> FinishSend(i, sends[i].outcome, outcome, UndefinedText)
    /\ UNCHANGED notGuide

GuideNext ==
    \/ \E text \in GuideInputs : SetInput(text)
    \/ HandleSend
    \/ \E i \in 1..MaxSends, o \in FetchOutcomes : FetchSettle(i, o)
    \/ \E i \in 1..MaxSends, o \in JsonOutcomes : JsonSettle(i, o)

----------------------------------------------------------------------------
(* loadNaverMap, geocodeWithNaver and geocodeWithPajuFallback *)

MaxQueryLen == 3      \* longest query handed to geocodeWithPajuFallback directly

\* Coordinates in 1/10000 degree.
PAJU_LAT_MIN == 376000
PAJU_LAT_MAX == 379500
PAJU_LON_MIN == 1266000
PAJU_LON_MAX == 1271000

Point(lat, lon) == [lat |-> lat, lon |-> lon]

\* What the geocoder can answer: the two corners of the box, a point in it,
\* points just outside its south and east edges, and a point in another city.
GeoPoints ==
    { Point(376000, 1266000), Point(379500, 1271000), Point(377000, 1267000),
      Point(375999, 1266000), Point(379500, 1271001), Point(375665, 1269780) }

Paju == <<"pa", "ju">>
PajuPrefix == <<"pa", "ju", "si", SP>>

GeoChars == {SP, "pa", "ju", "ga"}
GeoQueries == Str(GeoChars, MaxQueryLen)

isInPajuEvacMut(lat, lon) ==
    lat > PAJU_LAT_MIN /\ lat < PAJU_LAT_MAX /\ lon > PAJU_LON_MIN /\ lon < PAJU_LON_MAX
\* EvacuationSimulation.tsx:54-61
isInPajuEvac(lat, lon) ==
    lat >= PAJU_LAT_MIN /\ lat <= PAJU_LAT_MAX /\ lon >= PAJU_LON_MIN /\ lon <= PAJU_LON_MAX

isInPajuSearchMut(lat, lon) ==
    lat >= PAJU_LAT_MIN /\ lat <= PAJU_LAT_MAX /\ lon >= PAJU_LON_MIN
\* EvacuationSimulation.tsx:1169-1176 (ShelterSearch)
isInPajuSearch(lat, lon) ==
    lat >= PAJU_LAT_MIN /\ lat <= PAJU_LAT_MAX /\ lon >= PAJU_LON_MIN /\ lon <= PAJU_LON_MAX

isInPaju(copy, p) ==
    IF copy = "Evac" THEN isInPajuEvac(p.lat, p.lon) ELSE isInPajuSearch(p.lat, p.lon)

NeedsSecondEvacMut(clean) == TRUE
\* EvacuationSimulation.tsx:78  if (!clean.includes(city name))
NeedsSecondEvac(clean) == ~Includes(clean, Paju)

NeedsSecondSearchMut(clean) == TRUE
\* EvacuationSimulation.tsx:1198-1200 (ShelterSearch)  early return
NeedsSecondSearch(clean) == ~Includes(clean, Paju)

NeedsSecond(copy, clean) ==
    IF copy = "Evac" THEN NeedsSecondEvac(clean) ELSE NeedsSecondSearch(clean)

\* the query of the second lookup (lines 80 and 1203)
Prefixed(clean) == PajuPrefix \o clean

LoaderCachedMut(loader) == loader \in {"pending", "resolved"}
\* part_003:5  if (naverMapLoader) return naverMapLoader
LoaderCached(loader) == loader # "null"

\* part_003:4-40  the state of the promise loadNaverMap returns
LoaderAfterCall ==
    IF LoaderCached(naverMapLoader) THEN naverMapLoader
    ELSE IF naverLoaded THEN "resolved"
    ELSE IF ~keyDefined THEN "rejected"
    ELSE "pending"

ScriptsAfterCallMut ==
    IF ~LoaderCached(naverMapLoader) /\ keyDefined
    THEN scripts + 1
    ELSE scripts
\* part_003:23-36  a call appends a script only when it starts a load
ScriptsAfterCall ==
    IF ~LoaderCached(naverMapLoader) /\ ~naverLoaded /\ keyDefined
    THEN scripts + 1
    ELSE scripts

\* one synchronous call of loadNaverMap()
CallLoadNaverMap ==
    /\ naverMapLoader' = LoaderAfterCall
    /\ scripts' = ScriptsAfterCall
    /\ UNCHANGED <<naverLoaded, keyDefined>>

\* What a lookup (one geocodeWithNaver call) settles with: a rejection (the
\* load failed), null (status not OK, or no address), or a point.
Rejected == [kind |-> "rejected", point |-> <<>>]
Miss == [kind |-> "null", point |-> <<>>]
Found(p) == [kind |-> "point", point |-> <<p>>]
GeoAnswers == {Miss} \cup {Found(p) : p \in GeoPoints}

CatchesLookupErrorMut(copy) == copy # "Evac"
\* the catch around each lookup (lines 74-76, 84-86, 1193-1195, 1209-1211)
CatchesLookupError(copy) == TRUE

NewTask(copy, raw, owner) ==
    [copy |-> copy, owner |-> owner, raw |-> raw, clean |-> Trim(raw),
     pc |-> IF Trim(raw) = <<>> THEN "done" ELSE "load",
     calls |-> IF Trim(raw) = <<>> THEN <<>> ELSE <<Trim(raw)>>,
     svc |-> <<>>, outs |-> <<>>, result |-> <<>>, usedQuery |-> <<>>]

\* geocodeWithPajuFallback from its start to its first await: a blank query
\* returns null at once, any other calls geocodeWithNaver(clean), which calls
\* loadNaverMap() and awaits it.
StartFallback(copy, raw, owner, before) ==
    /\ tasks' = Append(before, NewTask(copy, raw, owner))
    /\ IF Trim(raw) = <<>> THEN UNCHANGED mapVars ELSE CallLoadNaverMap

\* whether geocodeWithPajuFallback, call t, makes its second lookup after
\* its lookup settled with out
LooksUpAgain(t, out) ==
    LET hit == out.kind = "point" /\ isInPaju(t.copy, out.point[1])
        thrown == out.kind = "rejected" /\ ~CatchesLookupError(t.copy)
    IN  ~hit /\ ~thrown /\ Len(t.calls) = 1 /\ NeedsSecond(t.copy, t.clean)

\* call t of geocodeWithPajuFallback after its lookup settled with out
SettledTask(t, out) ==
    LET hit == out.kind = "point" /\ isInPaju(t.copy, out.point[1])
        thrown == out.kind = "rejected" /\ ~CatchesLookupError(t.copy)
        again == LooksUpAgain(t, out)
    IN  [t EXCEPT !.outs = Append(t.outs, out),
                  !.pc = IF again THEN "load" ELSE IF thrown THEN "threw" ELSE "done",
                  !.calls = IF again THEN Append(t.calls, Prefixed(t.clean))
                            ELSE t.calls,
                  !.result = IF hit THEN out.point ELSE <<>>,
                  !.usedQuery = IF hit THEN t.calls[Len(t.calls)] ELSE <<>>]

\* geocodeWithPajuFallback after a lookup settled with out; a second lookup
\* calls loadNaverMap() again
LookupSettled(i, out) ==
    /\ tasks' = [tasks EXCEPT ![i] = SettledTask(tasks[i], out)]
    /\ IF LooksUpAgain(tasks[i], out) THEN CallLoadNaverMap ELSE UNCHANGED mapVars

\* geocodeWithNaver after await loadNaverMap(): the load failed and the call
\* rejects, or svc.geocode is called with the query
TaskLoadSettled(i) ==
    /\ i \in 1..Len(tasks)
    /\ tasks[i].pc = "load"
    /\ naverMapLoader \in {"resolved", "rejected"}
    /\ IF naverMapLoader = "rejected"
       THEN LookupSettled(i, Rejected)
       ELSE /\ tasks' = [tasks EXCEPT ![i].pc = "geo",
                            ![i].svc = Append(@, tasks[i].calls[Len(tasks[i].calls)])]
            /\ UNCHANGED mapVars
    /\ UNCHANGED notGeo

\* the callback of svc.geocode
TaskGeoCallback(i, answer) ==
    /\ i \in 1..Len(tasks)
    /\ tasks[i].pc = "geo"
    /\ LookupSettled(i, answer)
    /\ UNCHANGED notGeo

\* script.onload
ScriptOnLoad ==
    /\ naverMapLoader = "pending"
    /\ naverMapLoader' = "resolved"
    /\ naverLoaded' = TRUE
    /\ UNCHANGED <<keyDefined, scripts, tasks>>
    /\ UNCHANGED notGeo

\* script.onerror
ScriptOnError ==
    /\ naverMapLoader = "pending"
    /\ naverMapLoader' = "rejected"
    /\ UNCHANGED <<naverLoaded, keyDefined, scripts, tasks>>
    /\ UNCHANGED notGeo

InFlight == {i \in 1..Len(tasks) : tasks[i].pc \notin {"done", "threw"}}

\* a call of either copy with any query, once the previous call has returned
CallFallback(copy, raw) ==
    /\ tasks = <<>>
    /\ StartFallback(copy, raw, "caller", <<>>)
    /\ UNCHANGED notGeo

\* the caller receives what the call returned
ReturnFallback ==
    /\ tasks # <<>>
    /\ InFlight = {}
    /\ \A i \in 1..Len(tasks) : tasks[i].owner = "caller"
    /\ tasks' = <<>>
    /\ UNCHANGED mapVars
    /\ UNCHANGED notGeo

MapInit ==
    /\ naverMapLoader = "null"
    /\ naverLoaded \in BOOLEAN
    /\ keyDefined \in BOOLEAN
    /\ scripts = 0
    /\ tasks = <<>>

GeoNext ==
    \/ \E copy \in {"Evac", "Search"}, raw \in GeoQueries : CallFallback(copy, raw)
    \/ ReturnFallback
    \/ \E i \in 1..Len(tasks) : TaskLoadSettled(i)
    \/ \E i \in 1..Len(tasks), a \in GeoAnswers : TaskGeoCallback(i, a)
    \/ ScriptOnLoad
    \/ ScriptOnError

----------------------------------------------------------------------------
(* The shelter_facilities table and the distance function *)

MaxRows == 2          \* most rows a shelter_facilities query returns

\* Number.MAX_VALUE: larger than every distance
MAX_VALUE == 2147483647

\* Rows of shelter_facilities. road_addr, capacity, lat and lon are nullable:
\* <<>> is null, <<v>> is the value v.
Row(serial, name, road_addr, capacity, lat, lon) ==
    [facility_serial |-> serial, name |-> name, road_addr |-> road_addr,
     capacity |-> capacity, lat |-> lat, lon |-> lon]

ShelterRows ==
    { Row(1, <<"A">>, <<(<<"pa", "ju", "si", SP, "ga">>)>>, <<100>>, <<377600>>, <<1267800>>),
      Row(2, <<"B">>, <<>>, <<>>, <<379000>>, <<1270000>>),
      Row(3, <<"C">>, <<(<<"ga">>)>>, <<50>>, <<>>, <<>>),
      Row(4, <<"D">>, <<(<<"ga", SP, "1">>)>>, <<>>, <<377600>>, <<1267800>>) }

\* What a select on shelter_facilities can return: any rows, in any order
DbTables ==
    {tb \in Str(ShelterRows, MaxRows) :
        \A j, k \in 1..Len(tb) : tb[j].facility_serial = tb[k].facility_serial => j = k}

\* { data, error } of an awaited query
DbError == [error |-> TRUE, data |-> <<>>]
DbData(tb) == [error |-> FALSE, data |-> tb]
DbOutcomes == {DbError} \cup {DbData(tb) : tb \in DbTables}

\* The haversine great-circle distance with earth radius 6371 km, in
\* millimetres, for coordinate pairs of the model: the double-precision
\* value rounded to the millimetre.
HaversineMm ==
    ( <<376000, 1266000, 376000, 1266000>> :> 0
   @@ <<376000, 1266000, 379500, 1271000>> :> 58701038
   @@ <<376000, 1266000, 377000, 1267000>> :> 14182818
   @@ <<376000, 1266000, 377599, 1267800>> :> 23812975
   @@ <<376000, 1266000, 377600, 1267800>> :> 23821271
   @@ <<376000, 1266000, 379000, 1270000>> :> 48472521
   @@ <<379500, 1271000, 376000, 1266000>> :> 58701038
   @@ <<379500, 1271000, 379500, 1271000>> :> 0
   @@ <<379500, 1271000, 377000, 1267000>> :> 44800237
   @@ <<379500, 1271000, 377599, 1267800>> :> 35158626
   @@ <<379500, 1271000, 377600, 1267800>> :> 35151927
   @@ <<379500, 1271000, 379000, 1270000>> :> 10384859
   @@ <<377000, 1267000, 376000, 1266000>> :> 14182818
   @@ <<377000, 1267000, 379500, 1271000>> :> 44800237
   @@ <<377000, 1267000, 377000, 1267000>> :> 0
   @@ <<377000, 1267000, 377599, 1267800>> :> 9688258
   @@ <<377000, 1267000, 377600, 1267800>> :> 9695903
   @@ <<377000, 1267000, 379000, 1270000>> :> 34486715
   @@ <<377599, 1267800, 376000, 1266000>> :> 23812975
   @@ <<377599, 1267800, 379500, 1271000>> :> 35158626
   @@ <<377599, 1267800, 377000, 1267000>> :> 9688258
   @@ <<377599, 1267800, 377599, 1267800>> :> 0
   @@ <<377599, 1267800, 377600, 1267800>> :> 11119
   @@ <<377599, 1267800, 379000, 1270000>> :> 24819580
   @@ <<377600, 1267800, 376000, 1266000>> :> 23821271
   @@ <<377600, 1267800, 379500, 1271000>> :> 35151927
   @@ <<377600, 1267800, 377000, 1267000>> :> 9695903
   @@ <<377600, 1267800, 377599, 1267800>> :> 11119
   @@ <<377600, 1267800, 377600, 1267800>> :> 0
   @@ <<377600, 1267800, 379000, 1270000>> :> 24812592
   @@ <<379000, 1270000, 376000, 1266000>> :> 48472521
   @@ <<379000, 1270000, 379500, 1271000>> :> 10384859
   @@ <<379000, 1270000, 377000, 1267000>> :> 34486715
   @@ <<379000, 1270000, 377599, 1267800>> :> 24819580
   @@ <<379000, 1270000, 377600, 1267800>> :> 24812592
   @@ <<379000, 1270000, 379000, 1270000>> :> 0 )

\* ---- Fixed-point arithmetic for the floating-point formula.  Coordinates
\* are in 1/10000 degree, small angles in microradians, cosines in 1/10000,
\* distances in millimetres (km * microradian).  Every product is scaled
\* down in stages so that no intermediate value leaves 32 bits.

Abs(x) == IF x < 0 THEN 0 - x ELSE x

\* x * y / s on sign and magnitude, as a floating-point product and quotient
Scaled(x, y, s) ==
    IF (x < 0) # (y < 0) THEN 0 - ((Abs(x) * Abs(y)) \div s)
    ELSE (Abs(x) * Abs(y)) \div s

\* Math.PI / 180, in 1/10000000
PI_OVER_180 == 174533

\* (d * Math.PI) / 180 for a difference d of coordinates, in microradians
DiffToRad(d) == Scaled(d, PI_OVER_180, 100000)

\* (lat * Math.PI) / 180 for a latitude, in 1/10000 radian
LatToRad(lat) == Scaled(lat \div 100, PI_OVER_180, 100000)

\* Math.sin of a small angle in microradians: x - x^3/6
MathSin(x) == x - Scaled(Scaled(Scaled(x, x, 1000), x, 1000), 1, 6000000)

\* Math.cos of an angle in 1/10000 radian: 1 - x^2/2 + x^4/24 - x^6/720
MathCos(x) ==
    LET x2 == Scaled(x, x, 10000)
        x4 == Scaled(x2, x2, 10000)
        x6 == Scaled(x4, x2, 10000)
    IN  10000 - (x2 \div 2) + (x4 \div 24) - (x6 \div 720)

\* floor of the square root, by bisection
RECURSIVE SqrtBetween(_, _, _)
SqrtBetween(a, lo, hi) ==
    IF lo >= hi THEN lo
    ELSE LET mid == (lo + hi + 1) \div 2
         IN  IF mid * mid <= a THEN SqrtBetween(a, mid, hi)
             ELSE SqrtBetween(a, lo, mid - 1)

SQRT_MAX == 46340

\* Math.sqrt(a) of a in microradian^2, in microradians
MathSqrt(a) == SqrtBetween(a, 0, SQRT_MAX)

\* Math.sqrt(1 - a) of a in microradian^2, in 1/1000000: 1 - a/2
MathSqrtOneMinus(a) == 1000000 - (a \div 2000000)

\* Math.atan2(y, x) of y in microradians and x in 1/1000000 near 1, in
\* microradians: y/x - (y/x)^3/3
MathAtan2(y, x) ==
    LET q == Scaled(y, 100000, x \div 10)
    IN  q - Scaled(Scaled(Scaled(q, q, 1000), q, 1000), 1, 3000000)

\* the earth radius of both copies, km
R == 6371

calcDistanceKmEvacMut(lat1, lon1, lat2, lon2) ==
    LET dLat == DiffToRad(lat2 - lat1)
        dLon == DiffToRad(lon2 - lon1)
        a == Scaled(MathSin(Scaled(dLat, 1, 2)), MathSin(Scaled(dLat, 1, 2)), 1)
             + Scaled(Scaled(Scaled(MathCos(LatToRad(lat1)),
                                    MathCos(LatToRad(lat1)), 10000),
                             MathSin(Scaled(dLon, 1, 2)), 100),
                      MathSin(Scaled(dLon, 1, 2)), 100)
        c == 2 * MathAtan2(MathSqrt(a), MathSqrtOneMinus(a))
    IN  R * c
\* EvacuationSimulation.tsx:40-52, in millimetres
calcDistanceKmEvac(lat1, lon1, lat2, lon2) ==
    LET dLat == DiffToRad(lat2 - lat1)
        dLon == DiffToRad(lon2 - lon1)
        a == Scaled(MathSin(Scaled(dLat, 1, 2)), MathSin(Scaled(dLat, 1, 2)), 1)
             + Scaled(Scaled(Scaled(MathCos(LatToRad(lat1)),
                                    MathCos(LatToRad(lat2)), 10000),
                             MathSin(Scaled(dLon, 1, 2)), 100),
                      MathSin(Scaled(dLon, 1, 2)), 100)
        c == 2 * MathAtan2(MathSqrt(a), MathSqrtOneMinus(a))
    IN  R * c

----------------------------------------------------------------------------
(* The evacuation wizard *)

WizardAddresses == {<<>>, <<SP>>, <<"ga">>, <<"pa", "ju">>}
HousingTypes == {"apartment", "house"}
FamilySizes == {"alone", "couple", "family"}
Magnitudes == {"3-4", "4-5", "5+"}

NoQuery == [outcome |-> "none", geo |-> <<>>, data |-> <<>>]

\* NearestShelter of a row (lines 107-112 and 127-131)
NearestOf(row) ==
    [name |-> row.name,
     address |-> IF row.road_addr = <<>> THEN <<>> ELSE row.road_addr[1],
     capacity |-> row.capacity]

RECURSIVE ScanNearestMut(_, _, _, _, _)
ScanNearestMut(data, geo, k, best, bestDist) ==
    IF k > Len(data) THEN best
    ELSE IF data[k].lat = <<>> \/ data[k].lon = <<>>
         THEN ScanNearestMut(data, geo, k + 1, best, bestDist)
         ELSE LET d == calcDistanceKmEvac(geo.lat, geo.lon, data[k].lat[1], data[k].lon[1])
              IN  IF d <= bestDist
                  THEN ScanNearestMut(data, geo, k + 1, k, d)
                  ELSE ScanNearestMut(data, geo, k + 1, best, bestDist)
\* the loop of lines 115-125 from row k on: the index of best
RECURSIVE ScanNearest(_, _, _, _, _)
ScanNearest(data, geo, k, best, bestDist) ==
    IF k > Len(data) THEN best
    ELSE IF data[k].lat = <<>> \/ data[k].lon = <<>>
         THEN ScanNearest(data, geo, k + 1, best, bestDist)
         ELSE LET d == calcDistanceKmEvac(geo.lat, geo.lon, data[k].lat[1], data[k].lon[1])
              IN  IF d < bestDist
                  THEN ScanNearest(data, geo, k + 1, k, d)
                  ELSE ScanNearest(data, geo, k + 1, best, bestDist)

ShelterOnErrorMut(q) == IF q.data = <<>> THEN <<>> ELSE <<NearestOf(q.data[1])>>
\* lines 99-103: an error or no rows give null
ShelterOnError(q) == <<>>

findNearestShelterResultMut(geo, q) ==
    IF q.error \/ q.data = <<>> THEN ShelterOnError(q)
    ELSE IF geo = <<>> THEN <<>>
    ELSE <<NearestOf(q.data[ScanNearest(q.data, geo[1], 1, 1, MAX_VALUE)])>>
\* findNearestShelter after the query: null, or the NearestShelter (as <<v>>)
findNearestShelterResult(geo, q) ==
    IF q.error \/ q.data = <<>> THEN ShelterOnError(q)
    ELSE IF geo = <<>> THEN <<NearestOf(q.data[1])>>
    ELSE <<NearestOf(q.data[ScanNearest(q.data, geo[1], 1, 1, MAX_VALUE)])>>

WizardInit ==
    /\ step = 1
    /\ address = <<>>
    /\ housingType = NULL
    /\ familySize = NULL
    /\ magnitude = NULL
    /\ showResults = FALSE
    /\ targetShelter = <<>>
    /\ loadingShelter = FALSE
    /\ wpc = "idle"
    /\ wgeo = <<>>
    /\ lastQuery = NoQuery

\* The step screens are rendered only while the results are not shown.
\* onChange of the address input (step 1)
SetAddress(text) ==
    /\ ~showResults /\ step = 1
    /\ address' = text
    /\ UNCHANGED <<step, housingType, familySize, magnitude, showResults,
                   targetShelter, loadingShelter, wpc, wgeo, lastQuery>>
    /\ UNCHANGED <<geoVars, notWizard>>

\* the housing buttons (step 2), the family buttons (step 3) and the
\* magnitude buttons (step 4)
SetHousingType(h) ==
    /\ ~showResults /\ step = 2
    /\ housingType' = h
    /\ UNCHANGED <<step, address, familySize, magnitude, showResults,
                   targetShelter, loadingShelter, wpc, wgeo, lastQuery>>
    /\ UNCHANGED <<geoVars, notWizard>>

SetFamilySize(f) ==
    /\ ~showResults /\ step = 3
    /\ familySize' = f
    /\ UNCHANGED <<step, address, housingType, magnitude, showResults,
                   targetShelter, loadingShelter, wpc, wgeo, lastQuery>>
    /\ UNCHANGED <<geoVars, notWizard>>

SetMagnitude(m) ==
    /\ ~showResults /\ step = 4
    /\ magnitude' = m
    /\ UNCHANGED <<step, address, housingType, familySize, showResults,
                   targetShelter, loadingShelter, wpc, wgeo, lastQuery>>
    /\ UNCHANGED <<geoVars, notWizard>>

NextEnabledMut(s, a, h, f) ==
    \/ s = 1
    \/ s = 2 /\ h # NULL
    \/ s = 3 /\ f # NULL
\* the disabled attributes of the "next" buttons (lines 589, 636, 695)
NextEnabled(s, a, h, f) ==
    \/ s = 1 /\ a # <<>>
    \/ s = 2 /\ h # NULL
    \/ s = 3 /\ f # NULL

\* the "next" buttons, disabled while the step's input is not set
NextStep ==
    /\ ~showResults
    /\ NextEnabled(step, address, housingType, familySize)
    /\ step' = step + 1
    /\ UNCHANGED <<address, housingType, familySize, magnitude, showResults,
                   targetShelter, loadingShelter, wpc, wgeo, lastQuery>>
    /\ UNCHANGED <<geoVars, notWizard>>

\* the "previous" buttons of steps 2, 3 and 4
PrevStep ==
    /\ ~showResults
    /\ step \in {2, 3, 4}
    /\ step' = step - 1
    /\ UNCHANGED <<address, housingType, familySize, magnitude, showResults,
                   targetShelter, loadingShelter, wpc, wgeo, lastQuery>>
    /\ UNCHANGED <<geoVars, notWizard>>

\* handleStartSimulation up to the first await of findNearestShelter; the
\* button is disabled without a magnitude and while loadingShelter
HandleStartSimulation ==
    /\ ~showResults /\ step = 4
    /\ magnitude # NULL /\ ~loadingShelter
    /\ IF address # <<>> /\ housingType # NULL /\ familySize # NULL /\ magnitude # NULL
       THEN /\ loadingShelter' = TRUE
            /\ wpc' = "geo"
            /\ StartFallback("Evac", address, "wizard", tasks)
       ELSE UNCHANGED <<loadingShelter, wpc, geoVars>>
    /\ UNCHANGED <<step, address, housingType, familySize, magnitude, showResults,
                   targetShelter, wgeo, lastQuery>>
    /\ UNCHANGED notWizard

\* findNearestShelter after await geocodeWithPajuFallback: the query is issued
WizardGeoDone ==
    /\ wpc = "geo"
    /\ tasks # <<>>
    /\ tasks[Len(tasks)].owner = "wizard"
    /\ tasks[Len(tasks)].pc = "done"
    /\ wgeo' = tasks[Len(tasks)].result
    /\ tasks' = SubSeq(tasks, 1, Len(tasks) - 1)
    /\ wpc' = "db"
    /\ UNCHANGED <<step, address, housingType, familySize, magnitude, showResults,
                   targetShelter, loadingShelter, lastQuery>>
    /\ UNCHANGED <<mapVars, notWizard>>

\* findNearestShelter after the awaited query, and the rest of
\* handleStartSimulation
WizardDbSettle(q) ==
    /\ wpc = "db"
    /\ targetShelter' = findNearestShelterResult(wgeo, q)
    /\ loadingShelter' = FALSE
    /\ showResults' = TRUE
    /\ wpc' = "idle"
    /\ lastQuery' = [outcome |-> IF q.error THEN "error"
                                 ELSE IF q.data = <<>> THEN "empty" ELSE "rows",
                     geo |-> wgeo, data |-> q.data]
    /\ wgeo' = <<>>
    /\ UNCHANGED <<step, address, housingType, familySize, magnitude>>
    /\ UNCHANGED <<geoVars, notWizard>>

\* the "new simulation" button of the result screen (lines 272-280)
NewSimulation ==
    /\ showResults
    /\ showResults' = FALSE
    /\ step' = 1
    /\ address' = <<>>
    /\ housingType' = NULL
    /\ familySize' = NULL
    /\ magnitude' = NULL
    /\ targetShelter' = <<>>
    /\ lastQuery' = NoQuery
    /\ UNCHANGED <<loadingShelter, wpc, wgeo>>
    /\ UNCHANGED <<geoVars, notWizard>>

\* what the browser, the script host, the geocoder and the database do
WizardProgress ==
    \/ ScriptOnLoad
    \/ ScriptOnError
    \/ \E i \in 1..Len(tasks) : TaskLoadSettled(i)
    \/ \E i \in 1..Len(tasks), a \in GeoAnswers : TaskGeoCallback(i, a)
    \/ WizardGeoDone
    \/ \E q \in DbOutcomes : WizardDbSettle(q)

WizardNext ==
    \/ \E text \in WizardAddresses : SetAddress(text)
    \/ \E h \in HousingTypes : SetHousingType(h)
    \/ \E f \in FamilySizes : SetFamilySize(f)
    \/ \E m \in Magnitudes : SetMagnitude(m)
    \/ NextStep
    \/ PrevStep
    \/ HandleStartSimulation
    \/ NewSimulation
    \/ WizardProgress

----------------------------------------------------------------------------
(* The home page search box, navigation and the shelter search screen *)

MaxSearches == 2      \* most address searches in flight at once

\* EvacuationSimulation.tsx:1113-1114, the city centre
USER_LAT == 377599
USER_LON == 1267800
\* EvacuationSimulation.tsx:1123
NEARBY_LIMIT == 10

\* what the user types into the two search boxes
HomeInputs == {<<SP>>, <<"pa", "ju", SP>>, <<"pa", "ju", "si">>}
SearchInputs == {<<>>, <<SP, "1", "si">>, <<"pa", "ju", "si">>}

\* what the geocoder answers while the search screen is open
SearchAnswers == {Miss, Found(Point(377000, 1267000))}

\* EvacuationSimulation.tsx:1129-1141, in millimetres
calcDistanceKmSearch(lat1, lon1, lat2, lon2) ==
    LET dLat == DiffToRad(lat2 - lat1)
        dLon == DiffToRad(lon2 - lon1)
        a == Scaled(MathSin(Scaled(dLat, 1, 2)), MathSin(Scaled(dLat, 1, 2)), 1)
             + Scaled(Scaled(Scaled(MathCos(LatToRad(lat1)),
                                    MathCos(LatToRad(lat2)), 10000),
                             MathSin(Scaled(dLon, 1, 2)), 100),
                      MathSin(Scaled(dLon, 1, 2)), 100)
        c == 2 * MathAtan2(MathSqrt(a), MathSqrtOneMinus(a))
    IN  R * c

\* ---- both copies applied to the same coordinate pairs

\* the coordinates the model takes distances between
DistPoints ==
    { <<376000, 1266000>>, <<379500, 1271000>>, <<377000, 1267000>>,
      <<377599, 1267800>>, <<377600, 1267800>>, <<379000, 1270000>> }

NoArgs == <<>>

DistInit ==
    /\ distArgs = NoArgs
    /\ distEvac = 0
    /\ distSearch = 0

CalcDistance(p, q) ==
    /\ distArgs' = <<p[1], p[2], q[1], q[2]>>
    /\ distEvac' = calcDistanceKmEvac(p[1], p[2], q[1], q[2])
    /\ distSearch' = calcDistanceKmSearch(p[1], p[2], q[1], q[2])
    /\ UNCHANGED notDist

DistNext == \E p, q \in DistPoints : CalcDistance(p, q)

\* .order('name'): the names of ShelterRows ascend with their serials
OrderedByName(tb) ==
    \A j, k \in 1..Len(tb) : j < k => tb[j].facility_serial < tb[k].facility_serial

\* { data, error } of the query of loadShelters
SearchDbOutcomes == {DbError} \cup {DbData(tb) : tb \in {t \in DbTables : OrderedByName(t)}}

\* lines 1260-1273: a Shelter of a row (the constant is_24h_open and facilities
\* fields are left out)
Mapped(row) ==
    [facility_serial |-> row.facility_serial, name |-> row.name,
     road_addr |-> row.road_addr, capacity |-> row.capacity,
     lat |-> row.lat, lon |-> row.lon,
     address |-> IF row.road_addr = <<>> THEN <<>> ELSE row.road_addr[1]]

MapRows(data) == [k \in 1..Len(data) |-> Mapped(data[k])]

\* the sort key of lines 1277-1284 and 1324-1331
CentreKey(s) ==
    IF s.lat # <<>> /\ s.lon # <<>>
    THEN calcDistanceKmSearch(USER_LAT, USER_LON, s.lat[1], s.lon[1])
    ELSE MAX_VALUE

\* the sort key of lines 1365-1376
PointKey(p, s) ==
    IF s.lat # <<>> /\ s.lon # <<>>
    THEN calcDistanceKmSearch(p.lat, p.lon, s.lat[1], s.lon[1])
    ELSE MAX_VALUE

\* Array.prototype.sort with the comparator da - db, a stable sort: the
\* positions of keys in sorted order.  InsertIdx puts position k after every
\* position whose key is not larger.
RECURSIVE InsertIdx(_, _, _)
InsertIdx(order, k, keys) ==
    IF order = <<>> THEN <<k>>
    ELSE IF keys[Head(order)] <= keys[k]
         THEN <<Head(order)>> \o InsertIdx(Tail(order), k, keys)
         ELSE <<k>> \o order

RECURSIVE SortOrder(_, _)
SortOrder(keys, n) ==
    IF n = 0 THEN <<>> ELSE InsertIdx(SortOrder(keys, n - 1), n, keys)

\* list sorted by keys, keys[k] being the key of list[k]
SortBy(list, keys) ==
    LET order == SortOrder(keys, Len(list))
    IN  [j \in 1..Len(list) |-> list[order[j]]]

\* Array.prototype.filter: the positions from k on that keep marks
RECURSIVE KeptFrom(_, _)
KeptFrom(keep, k) ==
    IF k > Len(keep) THEN <<>>
    ELSE (IF keep[k] THEN <<k>> ELSE <<>>) \o KeptFrom(keep, k + 1)

\* the elements list[k] with keep[k]
Filter(list, keep) ==
    LET kept == KeptFrom(keep, 1)
    IN  [j \in 1..Len(kept) |-> list[kept[j]]]

\* EvacuationSimulation.tsx:1156-1166
Digits == {"1"}
AdminSuffixes == {"dong", "eup", "myeon", "ri", "si", "gun", "gu"}
isAdministrativeQueryMut(q) ==
    LET trimmed == Trim(q)
    IN  /\ trimmed # <<>>
        /\ trimmed[Len(trimmed)] \in AdminSuffixes
isAdministrativeQuery(q) ==
    LET trimmed == Trim(q)
    IN  /\ trimmed # <<>>
        /\ \A k \in 1..Len(trimmed) : trimmed[k] \notin Digits
        /\ trimmed[Len(trimmed)] \in AdminSuffixes

\* resultLabel: the kind of text, the query quoted in it, the count shown
Label(kind, text, n) == [kind |-> kind, text |-> text, n |-> n]
DefaultLabel == Label("default", <<>>, 0)
NoResultLabel == Label("noResult", <<>>, 0)

\* the five pieces of state a search sets
View(fs, pos, mode, last, label) ==
    [filteredShelters |-> fs, userPos |-> pos, searchMode |-> mode,
     lastSearchQuery |-> last, resultLabel |-> label]

CentreKeys(sh) == [k \in 1..Len(sh) |-> CentreKey(sh[k])]

ResetViewMut(sh) == View(sh, <<>>, "DEFAULT", <<>>, DefaultLabel)
\* lines 1317-1337: a blank query
ResetView(sh) == View(SortBy(sh, CentreKeys(sh)), <<>>, "DEFAULT", <<>>, DefaultLabel)

\* lines 1340-1350: an administrative query
RegionView(q, sh) ==
    LET InZone(s) == Includes(IF s.road_addr = <<>> THEN <<>> ELSE s.road_addr[1], q)
        zoneFiltered == Filter(sh, [k \in 1..Len(sh) |-> InZone(sh[k])])
    IN  View(zoneFiltered, <<>>, "REGION", <<q>>, Label("region", q, 0))

\* lines 1356-1391: the fallback returned point for usedQuery
AddressView(q, sh, point, usedQuery) ==
    LET sortedByDistance == SortBy(sh, [k \in 1..Len(sh) |-> PointKey(point, sh[k])])
        limited == IF Len(sortedByDistance) > NEARBY_LIMIT
                   THEN SubSeq(sortedByDistance, 1, NEARBY_LIMIT)
                   ELSE sortedByDistance
    IN  View(limited, <<point>>, "ADDRESS", <<usedQuery>>,
             Label("address", IF usedQuery = q THEN <<>> ELSE usedQuery, Len(limited)))

NoResultViewMut(q) == View(<<>>, <<>>, "DEFAULT", <<>>, NoResultLabel)
\* lines 1397-1402: no point inside Paju was found
NoResultView(q) == View(<<>>, <<>>, "REGION", <<q>>, NoResultLabel)

SearchInitialStateMut ==
    [searchAddress |-> <<>>, shelters |-> <<>>, filteredShelters |-> <<>>,
     loading |-> FALSE, userPos |-> <<>>, resultLabel |-> DefaultLabel,
     searchMode |-> "DEFAULT", lastSearchQuery |-> <<>>, initialQuery |-> <<>>]
\* lines 1218-1230: the useState initial values of a ShelterSearch instance
SearchInitialState ==
    [searchAddress |-> <<>>, shelters |-> <<>>, filteredShelters |-> <<>>,
     loading |-> TRUE, userPos |-> <<>>, resultLabel |-> DefaultLabel,
     searchMode |-> "DEFAULT", lastSearchQuery |-> <<>>, initialQuery |-> <<>>]

LoadErrorStateMut == [shelters |-> <<>>, filteredShelters |-> <<>>, loading |-> TRUE]
\* lines 1252-1258: what loadShelters sets when the query returned an error
LoadErrorState == [shelters |-> <<>>, filteredShelters |-> <<>>, loading |-> FALSE]

SetView(v) ==
    /\ filteredShelters' = v.filteredShelters
    /\ userPos' = v.userPos
    /\ searchMode' = v.searchMode
    /\ lastSearchQuery' = v.lastSearchQuery
    /\ resultLabel' = v.resultLabel

CurrentView == View(filteredShelters, userPos, searchMode, lastSearchQuery, resultLabel)

\* A ShelterSearch instance as it is created: every useState at its initial
\* value, no query issued, no search in flight.
FreshSearchScreen ==
    /\ searchAddress' = SearchInitialState.searchAddress
    /\ shelters' = SearchInitialState.shelters
    /\ filteredShelters' = SearchInitialState.filteredShelters
    /\ loading' = SearchInitialState.loading
    /\ userPos' = SearchInitialState.userPos
    /\ resultLabel' = SearchInitialState.resultLabel
    /\ searchMode' = SearchInitialState.searchMode
    /\ lastSearchQuery' = SearchInitialState.lastSearchQuery
    /\ initialQuery' = SearchInitialState.initialQuery
    /\ shelterQueries' = 0
    /\ searches' = <<>>
    /\ tasks' = <<>>

SearchInit ==
    /\ page = "home"
    /\ homeAddress = <<>>
    /\ sessionStorage = <<>>
    /\ spc = "unmounted"
    /\ searchAddress = <<>>
    /\ shelters = <<>>
    /\ filteredShelters = <<>>
    /\ loading = TRUE
    /\ userPos = <<>>
    /\ resultLabel = DefaultLabel
    /\ searchMode = "DEFAULT"
    /\ lastSearchQuery = <<>>
    /\ initialQuery = <<>>
    /\ shelterQueries = 0
    /\ searches = <<>>

\* HomePage.tsx: the search input's onChange
HomeSetAddress(text) ==
    /\ page = "home"
    /\ homeAddress' = text
    /\ UNCHANGED <<page, sessionStorage, spc, searchAddress, shelters, filteredShelters,
                   loading, userPos, resultLabel, searchMode, lastSearchQuery,
                   initialQuery, shelterQueries, searches>>
    /\ UNCHANGED <<loaderVars, detailVars, distVars, routeVars, dbVars, apiVars, guideVars, geoVars, wizardVars>>

\* The route changes to /search: HomePage unmounts and a ShelterSearch
\* instance is rendered; its effects have not run yet.
EnterSearch ==
    /\ page' = "search"
    /\ spc' = "effects"
    /\ homeAddress' = <<>>
    /\ FreshSearchScreen

\* HomePage.tsx:67-73
HomeHandleSearch ==
    /\ page = "home"
    /\ LET q == Trim(homeAddress)
       IN  IF q = <<>>
           THEN UNCHANGED <<searchVars, tasks>>
           ELSE /\ sessionStorage' = <<q>>
                /\ EnterSearch
    /\ UNCHANGED <<loaderVars, detailVars, distVars, routeVars, dbVars, apiVars, guideVars, mapVars, wizardVars>>

\* onNavigate('search') of the header and of the home page's shortcut
NavigateSearch ==
    /\ page = "home"
    /\ EnterSearch
    /\ UNCHANGED sessionStorage
    /\ UNCHANGED <<loaderVars, detailVars, distVars, routeVars, dbVars, apiVars, guideVars, mapVars, wizardVars>>

\* The effects of a newly mounted ShelterSearch: NaverMap's effect calls
\* loadNaverMap(); lines 1233-1240 take the stored query; lines 1243-1296
\* start loadShelters, which issues the query.
MountEffects ==
    /\ page = "search"
    /\ spc = "effects"
    /\ CallLoadNaverMap
    /\ IF sessionStorage # <<>> /\ Trim(sessionStorage[1]) # <<>>
       THEN /\ initialQuery' = sessionStorage
            /\ searchAddress' = sessionStorage[1]
            /\ sessionStorage' = <<>>
       ELSE UNCHANGED <<initialQuery, searchAddress, sessionStorage>>
    /\ loading' = TRUE
    /\ shelterQueries' = shelterQueries + 1
    /\ spc' = "query"
    /\ UNCHANGED <<page, homeAddress, shelters, filteredShelters, userPos, resultLabel,
                   searchMode, lastSearchQuery, searches, tasks>>
    /\ UNCHANGED <<loaderVars, detailVars, distVars, routeVars, dbVars, apiVars, guideVars, wizardVars>>

Without(seq, i) == SubSeq(seq, 1, i - 1) \o SubSeq(seq, i + 1, Len(seq))

\* What a finished handleSearchClick call sets (lines 1356-1402): s is the
\* call, t the fallback call it awaited
FinishView(s, t) ==
    IF t.result # <<>>
    THEN AddressView(s.q, s.shelters, t.result[1], t.usedQuery)
    ELSE NoResultView(s.q)

\* Call t of the fallback run until it waits for the script or for the
\* geocoder.  Every await in between is on a settled promise, so the steps
\* run as microtasks before any other event: with the load resolved
\* svc.geocode is called, with the load rejected the lookup rejects, is
\* caught, and the next lookup (if any) rejects too.
RECURSIVE RunTask(_, _)
RunTask(t, loader) ==
    IF t.pc = "load" /\ loader = "resolved"
    THEN [t EXCEPT !.pc = "geo", !.svc = Append(@, t.calls[Len(t.calls)])]
    ELSE IF t.pc = "load" /\ loader = "rejected"
    THEN RunTask(SettledTask(t, Rejected), loader)
    ELSE t

Finished(t) == t.pc \in {"done", "threw"}

\* The calls ss once handleSearchClick has been called again.  The code keeps
\* no such mark: newer records, for each call still waiting, whether a
\* later call has been made.
Overtaken(ss) == [i \in 1..Len(ss) |-> [ss[i] EXCEPT !.newer = TRUE]]

\* handleSearchClick(forced) up to the point where it returns or waits for
\* the script or the geocoder, in an instance whose shelters are sh and whose
\* view is before.  auto tells whether the caller is the effect of lines
\* 1299-1309, which clears initialQuery once the call has returned.
SearchClick(forced, sh, before, auto) ==
    LET q == Trim(forced)
        s == [q |-> q, shelters |-> sh, auto |-> auto, newer |-> FALSE]
        t == RunTask(NewTask("Search", q, "search"), LoaderAfterCall)
    IN  IF q = <<>>
        THEN /\ SetView(ResetView(sh))
             /\ initialQuery' = IF auto THEN <<>> ELSE initialQuery
             /\ searches' = Overtaken(searches)
             /\ UNCHANGED <<tasks, mapVars>>
        ELSE IF isAdministrativeQuery(q)
        THEN /\ SetView(RegionView(q, sh))
             /\ initialQuery' = IF auto THEN <<>> ELSE initialQuery
             /\ searches' = Overtaken(searches)
             /\ UNCHANGED <<tasks, mapVars>>
        ELSE /\ CallLoadNaverMap
             /\ IF Finished(t)
                THEN /\ SetView(FinishView(s, t))
                     /\ initialQuery' = IF auto THEN <<>> ELSE initialQuery
                     /\ searches' = Overtaken(searches)
                     /\ UNCHANGED tasks
                ELSE /\ SetView(before)
                     /\ UNCHANGED initialQuery
                     /\ searches' = Append(Overtaken(searches), s)
                     /\ tasks' = Append(tasks, t)

\* whether a handleSearchClick(forced) call is left waiting
Waits(forced) == Trim(forced) # <<>> /\ ~isAdministrativeQuery(Trim(forced))

AutoSearchDueMut(iq, ld, sh) == iq # <<>> /\ ~ld
\* lines 1300-1302: whether the effect calls handleSearchClick(initialQuery)
AutoSearchDue(iq, ld, sh) == iq # <<>> /\ ~ld /\ sh # <<>>

\* loadShelters after the awaited query (lines 1247-1293), and the effect of
\* lines 1299-1309 that the resulting render runs
LoadSheltersSettle(out) ==
    /\ page = "search"
    /\ spc = "query"
    /\ IF out.error
       THEN /\ shelters' = LoadErrorState.shelters
            /\ filteredShelters' = LoadErrorState.filteredShelters
            /\ loading' = LoadErrorState.loading
            /\ spc' = "error"
            /\ UNCHANGED <<userPos, resultLabel, searchMode, lastSearchQuery,
                           initialQuery, searches, tasks, mapVars>>
       ELSE LET mapped == MapRows(out.data)
                loaded == View(SortBy(mapped, CentreKeys(mapped)), userPos, "DEFAULT", <<>>,
                               resultLabel)
            IN  /\ shelters' = mapped
                /\ loading' = FALSE
                /\ spc' = "ok"
                /\ IF AutoSearchDue(initialQuery, FALSE, mapped)
                   THEN /\ Waits(initialQuery[1]) => Len(searches) < MaxSearches
                        /\ SearchClick(initialQuery[1], mapped, loaded, TRUE)
                   ELSE /\ SetView(loaded)
                        /\ UNCHANGED <<initialQuery, searches, tasks, mapVars>>
    /\ UNCHANGED <<page, homeAddress, sessionStorage, searchAddress, shelterQueries>>
    /\ UNCHANGED <<loaderVars, detailVars, distVars, routeVars, dbVars, apiVars, guideVars, wizardVars>>

\* the search input's onChange (line 1467)
SetSearchAddress(text) ==
    /\ page = "search"
    /\ spc # "effects"
    /\ searchAddress' = text
    /\ UNCHANGED <<page, homeAddress, sessionStorage, spc, shelters, filteredShelters,
                   loading, userPos, resultLabel, searchMode, lastSearchQuery,
                   initialQuery, shelterQueries, searches>>
    /\ UNCHANGED <<loaderVars, detailVars, distVars, routeVars, dbVars, apiVars, guideVars, geoVars, wizardVars>>

\* the search button and the Enter key (lines 1468 and 1474)
HandleSearchClick ==
    /\ page = "search"
    /\ spc # "effects"
    /\ Waits(searchAddress) => Len(searches) < MaxSearches
    /\ SearchClick(searchAddress, shelters, CurrentView, FALSE)
    /\ UNCHANGED <<page, homeAddress, sessionStorage, spc, searchAddress, shelters,
                   loading, shelterQueries>>
    /\ UNCHANGED <<loaderVars, detailVars, distVars, routeVars, dbVars, apiVars, guideVars, wizardVars>>

\* The geocoder calls back for the lookup of search i: the fallback makes
\* its second lookup, or returns and handleSearchClick finishes (lines
\* 1356-1402).
SearchGeoCallback(i, answer) ==
    /\ page = "search"
    /\ i \in 1..Len(tasks)
    /\ tasks[i].owner = "search"
    /\ tasks[i].pc = "geo"
    /\ LET again == LooksUpAgain(tasks[i], answer)
           t == RunTask(SettledTask(tasks[i], answer), naverMapLoader)
       IN  /\ IF again THEN CallLoadNaverMap ELSE UNCHANGED mapVars
           /\ IF Finished(t)
              THEN /\ SetView(FinishView(searches[i], t))
                   /\ initialQuery' = IF searches[i].auto THEN <<>> ELSE initialQuery
                   /\ tasks' = Without(tasks, i)
                   /\ searches' = Without(searches, i)
              ELSE /\ tasks' = [tasks EXCEPT ![i] = t]
                   /\ UNCHANGED <<filteredShelters, userPos, searchMode, lastSearchQuery,
                                  resultLabel, initialQuery, searches>>
    /\ UNCHANGED <<page, homeAddress, sessionStorage, spc, searchAddress, shelters,
                   loading, shelterQueries>>
    /\ UNCHANGED <<loaderVars, detailVars, distVars, routeVars, dbVars, apiVars, guideVars, wizardVars>>

\* script.onload while the search screen is open: every waiting lookup
\* calls svc.geocode
SearchScriptOnLoad ==
    /\ page = "search"
    /\ naverMapLoader = "pending"
    /\ naverMapLoader' = "resolved"
    /\ naverLoaded' = TRUE
    /\ tasks' = [i \in 1..Len(tasks) |-> RunTask(tasks[i], "resolved")]
    /\ UNCHANGED <<keyDefined, scripts, searchVars>>
    /\ UNCHANGED <<loaderVars, detailVars, distVars, routeVars, dbVars, apiVars, guideVars, wizardVars>>

\* The search whose continuation runs last when one rejection ends them
\* all: a fallback that makes two lookups returns after every fallback that
\* makes one, and among equals the calls return in call order.
LastToFinish ==
    LET two == {i \in 1..Len(tasks) : NeedsSecond(tasks[i].copy, tasks[i].clean)}
        last(S) == CHOOSE i \in S : \A j \in S : j <= i
    IN  IF two # {} THEN last(two) ELSE last(1..Len(tasks))

\* script.onerror while the search screen is open: every waiting lookup
\* rejects, every fallback returns null and every search finishes
SearchScriptOnError ==
    /\ page = "search"
    /\ naverMapLoader = "pending"
    /\ naverMapLoader' = "rejected"
    /\ UNCHANGED <<naverLoaded, keyDefined, scripts>>
    /\ tasks' = <<>>
    /\ searches' = <<>>
    /\ IF tasks = <<>>
       THEN UNCHANGED <<filteredShelters, userPos, searchMode, lastSearchQuery,
                        resultLabel, initialQuery>>
       ELSE /\ SetView(FinishView(searches[LastToFinish],
                                  RunTask(tasks[LastToFinish], "rejected")))
            /\ initialQuery' = IF \E i \in 1..Len(searches) : searches[i].auto
                               THEN <<>> ELSE initialQuery
    /\ UNCHANGED <<page, homeAddress, sessionStorage, spc, searchAddress, shelters,
                   loading, shelterQueries>>
    /\ UNCHANGED <<loaderVars, detailVars, distVars, routeVars, dbVars, apiVars, guideVars, wizardVars>>

\* The Home button (line 1439): the route changes to /, the ShelterSearch
\* instance unmounts and its state is gone.  What its searches still in
\* flight do afterwards changes nothing: they set the state of an unmounted
\* component, and their loadNaverMap calls find the cached promise.
NavigateHome ==
    /\ page = "search"
    /\ spc # "effects"
    /\ page' = "home"
    /\ spc' = "unmounted"
    /\ homeAddress' = <<>>
    /\ FreshSearchScreen
    /\ UNCHANGED sessionStorage
    /\ UNCHANGED <<loaderVars, detailVars, distVars, routeVars, dbVars, apiVars, guideVars, mapVars, wizardVars>>

SearchNext ==
    \/ \E text \in HomeInputs : HomeSetAddress(text)
    \/ HomeHandleSearch
    \/ NavigateSearch
    \/ MountEffects
    \/ \E out \in SearchDbOutcomes : LoadSheltersSettle(out)
    \/ \E text \in SearchInputs : SetSearchAddress(text)
    \/ HandleSearchClick
    \/ \E i \in 1..Len(tasks), a \in SearchAnswers : SearchGeoCallback(i, a)
    \/ SearchScriptOnLoad
    \/ SearchScriptOnError
    \/ NavigateHome

----------------------------------------------------------------------------
(* The tables of the migration and their row-level-security policies *)

Tables == {"shelters", "earthquakes", "fault_lines", "user_searches",
           "chatbot_conversations"}
Commands == {"SELECT", "INSERT", "UPDATE", "DELETE"}

\* Who sends a request: the anon role (auth.uid() is null) or an
\* authenticated user.
Uids == {"u1", "u2"}
Anon == [role |-> "anon", uid |-> NULL]
User(u) == [role |-> "authenticated", uid |-> u]
Sessions == {Anon} \cup {User(u) : u \in Uids}

\* A row: its user_id column (NULL in the tables that have none) and who
\* inserted it ("migration" for the sample data).  Rows that differ only in
\* generated or free-text columns are not told apart.
DbRow(user_id, by) == [user_id |-> user_id, by |-> by]
SeedRow == DbRow(NULL, "migration")
\* the inserter is recorded in user_searches, the table with an owner column
By(s, table) ==
    IF table # "user_searches" THEN "client"
    ELSE IF s.role = "anon" THEN "anon" ELSE s.uid

MaxDbRows == 3        \* most rows a client-written table holds

PoliciesMut ==
    { [table |-> "shelters", cmd |-> "SELECT", roles |-> {"anon", "authenticated"}, expr |-> "true"],
      [table |-> "earthquakes", cmd |-> "SELECT", roles |-> {"anon", "authenticated"}, expr |-> "true"],
      [table |-> "fault_lines", cmd |-> "SELECT", roles |-> {"anon", "authenticated"}, expr |-> "true"],
      [table |-> "user_searches", cmd |-> "SELECT", roles |-> {"authenticated"}, expr |-> "own"],
      [table |-> "user_searches", cmd |-> "INSERT", roles |-> {"authenticated", "anon"}, expr |-> "true"],
      [table |-> "user_searches", cmd |-> "DELETE", roles |-> {"authenticated"}, expr |-> "own"],
      [table |-> "chatbot_conversations", cmd |-> "INSERT", roles |-> {"anon", "authenticated"}, expr |-> "true"],
      [table |-> "chatbot_conversations", cmd |-> "SELECT", roles |-> {"anon", "authenticated"}, expr |-> "true"] }
\* migration lines 117-155: CREATE POLICY ... ON table FOR cmd TO roles
\* USING / WITH CHECK (expr); "own" is auth.uid() = user_id
Policies ==
    { [table |-> "shelters", cmd |-> "SELECT", roles |-> {"anon", "authenticated"}, expr |-> "true"],
      [table |-> "earthquakes", cmd |-> "SELECT", roles |-> {"anon", "authenticated"}, expr |-> "true"],
      [table |-> "fault_lines", cmd |-> "SELECT", roles |-> {"anon", "authenticated"}, expr |-> "true"],
      [table |-> "user_searches", cmd |-> "SELECT", roles |-> {"authenticated"}, expr |-> "own"],
      [table |-> "user_searches", cmd |-> "INSERT", roles |-> {"authenticated", "anon"}, expr |-> "true"],
      [table |-> "chatbot_conversations", cmd |-> "INSERT", roles |-> {"anon", "authenticated"}, expr |-> "true"],
      [table |-> "chatbot_conversations", cmd |-> "SELECT", roles |-> {"anon", "authenticated"}, expr |-> "true"] }

\* auth.uid() = user_id (line 139): not true when either side is null
OwnRow(s, r) == s.uid # NULL /\ r.user_id # NULL /\ s.uid = r.user_id

Holds(expr, s, r) == IF expr = "own" THEN OwnRow(s, r) ELSE TRUE

\* Row-level security is enabled on every table (lines 111-115): a command
\* reaches a row only if a policy for the command and the role admits it.
Admits(s, cmd, table, r) ==
    \E p \in Policies :
        /\ p.table = table
        /\ p.cmd = cmd
        /\ s.role \in p.roles
        /\ Holds(p.expr, s, r)

NoRead == [session |-> Anon, table |-> "none", rows |-> {}]

DbInit ==
    /\ db = [t \in Tables |->
               IF t \in {"shelters", "earthquakes", "fault_lines"} THEN {SeedRow} ELSE {}]
    /\ lastRead = NoRead

\* SELECT * FROM table
DbSelect(s, table) ==
    /\ lastRead' = [session |-> s, table |-> table,
                    rows |-> {r \in db[table] : Admits(s, "SELECT", table, r)}]
    /\ UNCHANGED db
    /\ UNCHANGED notDb

\* INSERT INTO table: the new row must pass a policy's WITH CHECK
DbInsert(s, table, user_id) ==
    /\ Cardinality(db[table]) < MaxDbRows
    /\ db' = IF Admits(s, "INSERT", table, DbRow(user_id, By(s, table)))
             THEN [db EXCEPT ![table] = @ \cup {DbRow(user_id, By(s, table))}]
             ELSE db
    /\ UNCHANGED lastRead
    /\ UNCHANGED notDb

\* UPDATE table SET user_id = ...: the rows a policy admits are changed
DbUpdate(s, table, user_id) ==
    /\ db' = [db EXCEPT ![table] =
                {r \in @ : ~Admits(s, "UPDATE", table, r)}
                \cup {[r EXCEPT !.user_id = user_id] :
                        r \in {x \in @ : Admits(s, "UPDATE", table, x)}}]
    /\ UNCHANGED lastRead
    /\ UNCHANGED notDb

\* DELETE FROM table: the rows a policy admits are deleted
DbDelete(s, table) ==
    /\ db' = [db EXCEPT ![table] = {r \in @ : ~Admits(s, "DELETE", table, r)}]
    /\ UNCHANGED lastRead
    /\ UNCHANGED notDb

\* the user_id a client may put into a row: user_searches has the column
UserIds(table) == IF table = "user_searches" THEN {NULL} \cup Uids ELSE {NULL}

DbNext ==
    \/ \E s \in Sessions, t \in Tables : DbSelect(s, t)
    \/ \E s \in Sessions, t \in Tables : \E u \in UserIds(t) : DbInsert(s, t, u)
    \/ \E s \in Sessions, t \in Tables : \E u \in UserIds(t) : DbUpdate(s, t, u)
    \/ \E s \in Sessions, t \in Tables : DbDelete(s, t)

----------------------------------------------------------------------------
(* App: pages, paths and routes *)

\* part_005:8
Pages == {"home", "search", "guide", "risk", "simulation"}

\* part_005:11-17
pageToPath ==
    [p \in Pages |->
        CASE p = "home" -> "/"
          [] p = "search" -> "/search"
          [] p = "guide" -> "/guide"
          [] p = "risk" -> "/risk"
          [] p = "simulation" -> "/simulation"]

\* part_005:18-27
pathToPage(path) ==
    CASE path = "/" -> "home"
      [] path = "/search" -> "search"
      [] path = "/guide" -> "guide"
      [] path = "/risk" -> "risk"
      [] path = "/simulation" -> "simulation"
      [] OTHER -> "home"

\* pathnames a browser can be at
Paths == {"/", "/search", "/guide", "/risk", "/simulation", "/search/", "/map", "/Guide"}

\* Page names handleNavigate can be given: page is a string.  InheritedKeys
\* are names of properties every object literal inherits from
\* Object.prototype.
InheritedKeys == {"constructor", "toString"}
PageNames == Pages \cup {"", "map", "Home"} \cup InheritedKeys

\* what navigate() is given for an inherited name: the inherited value
INHERITED == "<inherited value>"

\* pageToPath[p] (line 36), a property lookup on an object literal: an own
\* property, else a property of Object.prototype, else undefined
PropertyOf(p) ==
    IF p \in Pages THEN pageToPath[p]
    ELSE IF p \in InheritedKeys THEN INHERITED
    ELSE UNDEFINED

\* pageToPath[p] ?? '/'
NavigateTarget(p) == IF PropertyOf(p) \in {UNDEFINED, NULL} THEN "/" ELSE PropertyOf(p)

\* The route of part_005:48-53 a pathname matches: Routes matches without
\* regard to case or to a trailing slash, and "*" takes what is left.
MatchedRoute(path) ==
    CASE path = "/" -> "/"
      [] path \in {"/search", "/search/"} -> "/search"
      [] path \in {"/guide", "/Guide"} -> "/guide"
      [] path = "/simulation" -> "/simulation"
      [] OTHER -> "*"

\* part_005:47-54, the element Routes renders
RouteElement(path) ==
    CASE MatchedRoute(path) = "/" -> "HomePage"
      [] MatchedRoute(path) = "/search" -> "ShelterSearch"
      [] MatchedRoute(path) = "/guide" -> "AIGuide"
      [] MatchedRoute(path) = "/simulation" -> "EvacuationSimulation"
      [] OTHER -> "HomePage"

NoNavigation == "<none>"

RouteInit ==
    /\ pathname = "/"
    /\ navArg = NoNavigation
    /\ navigated = NoNavigation

\* part_005:34-37.  navigate(to) with a path goes to the path; given a value
\* that is no path it resolves against, and stays at, the current location.
HandleNavigate(p) ==
    /\ navArg' = p
    /\ navigated' = NavigateTarget(p)
    /\ pathname' = IF NavigateTarget(p) = INHERITED THEN pathname ELSE NavigateTarget(p)
    /\ UNCHANGED notRoute

\* the user opens a URL of the application
OpenPath(path) ==
    /\ pathname' = path
    /\ UNCHANGED <<navArg, navigated>>
    /\ UNCHANGED notRoute

RouteNext ==
    \/ \E p \in PageNames : HandleNavigate(p)
    \/ \E path \in Paths : OpenPath(path)

----------------------------------------------------------------------------
(* The shelter list of the search screen and the ShelterDetail screen *)

\* line 1415
showDistanceInfo == searchMode = "ADDRESS"

\* lines 1405-1410: null (<<>>) for a shelter without coordinates, else the
\* distance from userPos, or from the city centre without one
getDistanceForShelter(s) ==
    IF s.lat = <<>> \/ s.lon = <<>> THEN <<>>
    ELSE IF userPos # <<>>
    THEN <<calcDistanceKmSearch(userPos[1].lat, userPos[1].lon, s.lat[1], s.lon[1])>>
    ELSE <<calcDistanceKmSearch(USER_LAT, USER_LON, s.lat[1], s.lon[1])>>

\* line 1502: the distance of card k of the list
CardDistance(k) ==
    IF showDistanceInfo THEN getDistanceForShelter(filteredShelters[k]) ELSE <<>>

\* lines 1523-1531: whether card k shows its distance line
CardShowsDistance(k) == ~loading /\ showDistanceInfo

\* line 1562: whether the summary card with distances is shown on the map
SummaryShown == viewMode = "list" /\ selectedShelter # <<>> /\ showDistanceInfo

DetailUserPosMut == userPos
\* line 1431: the userPos prop of ShelterDetail
DetailUserPos == IF searchMode = "ADDRESS" THEN userPos ELSE <<>>

\* lines 822-826, from the props searchMode, userPos and shelter
hasDistance(mode, pos, shelter) ==
    mode = "ADDRESS" /\ pos # <<>> /\ shelter.lat # <<>> /\ shelter.lon # <<>>

\* line 862
canUseGuide(mode, pos, shelter) == hasDistance(mode, pos, shelter) /\ pos # <<>>

NothingOpened == [kind |-> "none", from |-> <<>>, to |-> <<>>]

\* lines 864-893: an alert, or window.open of the route from userPos to
\* the shelter
GuideClickResult(mode, pos, shelter) ==
    IF ~canUseGuide(mode, pos, shelter) \/ pos = <<>>
    THEN [kind |-> "alert", from |-> <<>>, to |-> <<>>]
    ELSE [kind |-> "route", from |-> pos, to |-> <<Point(shelter.lat[1], shelter.lon[1])>>]

\* The states a mounted search screen shows for the shelters sh: the views
\* handleSearchClick and loadShelters set, over the loaded list or over the
\* empty list a search issued before the load had captured.
ShownViews(sh) ==
    LET q == <<"1", "si">>
        held == {sh, <<>>}
        points == {a.point[1] : a \in {b \in SearchAnswers : b.kind = "point"}}
        found == {AddressView(q, h, p, u) : h \in held, p \in points, u \in {q, Prefixed(q)}}
    IN  {ResetView(sh), RegionView(<<"pa", "ju", "si">>, sh), NoResultView(q)}
        \cup found
        \cup {View(SortBy(sh, CentreKeys(sh)), v.userPos, "DEFAULT", <<>>, v.resultLabel) :
                v \in found}

\* A search screen after its load, showing one of its views in list mode
DetailInit ==
    /\ ApiInit /\ GuideInit /\ WizardInit /\ DbInit /\ RouteInit /\ DistInit
    /\ naverMapLoader = "resolved" /\ naverLoaded = TRUE /\ keyDefined = TRUE
    /\ scripts = 1 /\ tasks = <<>> /\ awaits = <<>>
    /\ page = "search" /\ homeAddress = <<>> /\ sessionStorage = <<>>
    /\ spc = "ok" /\ loading = FALSE /\ searchAddress = <<>>
    /\ initialQuery = <<>> /\ shelterQueries = 1 /\ searches = <<>>
    /\ \E out \in SearchDbOutcomes :
          /\ ~out.error
          /\ shelters = MapRows(out.data)
          /\ \E v \in ShownViews(MapRows(out.data)) :
                /\ filteredShelters = v.filteredShelters
                /\ userPos = v.userPos
                /\ searchMode = v.searchMode
                /\ lastSearchQuery = v.lastSearchQuery
                /\ resultLabel = v.resultLabel
    /\ viewMode = "list"
    /\ selectedShelter = <<>>
    /\ opened = NothingOpened

\* the useState values of lines 1219-1220 in every other specification
DetailIdle ==
    /\ viewMode = "list"
    /\ selectedShelter = <<>>
    /\ opened = NothingOpened

\* a click on card k of the list (line 1509)
SelectShelter(k) ==
    /\ viewMode = "list" /\ ~loading
    /\ k \in 1..Len(filteredShelters)
    /\ selectedShelter' = <<filteredShelters[k]>>
    /\ UNCHANGED <<viewMode, opened>>
    /\ UNCHANGED notDetail

\* the detail button of card k (lines 1533-1538) or the marker of shelter k
\* on the map (lines 1556-1559): ShelterDetail is rendered
OpenDetail(k) ==
    /\ viewMode = "list"
    /\ k \in 1..Len(filteredShelters)
    /\ selectedShelter' = <<filteredShelters[k]>>
    /\ viewMode' = "detail"
    /\ opened' = NothingOpened
    /\ UNCHANGED notDetail

\* onBack (lines 1422-1425)
OnBack ==
    /\ viewMode = "detail"
    /\ viewMode' = "list"
    /\ selectedShelter' = <<>>
    /\ opened' = NothingOpened
    /\ UNCHANGED notDetail

\* the guide button (lines 1074-1076), disabled unless canUseGuide
HandleGuideClick ==
    /\ viewMode = "detail"
    /\ canUseGuide(searchMode, DetailUserPos, selectedShelter[1])
    /\ opened' = GuideClickResult(searchMode, DetailUserPos, selectedShelter[1])
    /\ UNCHANGED <<viewMode, selectedShelter>>
    /\ UNCHANGED notDetail

\* the "view on Naver map" button (lines 895-901): a search URL
HandleOpenNaverMap ==
    /\ viewMode = "detail"
    /\ opened' = [kind |-> "search", from |-> <<>>, to |-> <<>>]
    /\ UNCHANGED <<viewMode, selectedShelter>>
    /\ UNCHANGED notDetail

DetailNext ==
    \/ \E k \in 1..MaxRows : SelectShelter(k)
    \/ \E k \in 1..MaxRows : OpenDetail(k)
    \/ OnBack
    \/ HandleGuideClick
    \/ HandleOpenNaverMap

----------------------------------------------------------------------------
----------------------------------------------------------------------------
(* The callers of loadNaverMap: the two effects of NaverMap and geocodeWithNaver *)

MaxCallers == 3       \* most loadNaverMap calls followed at once

\* part_001:27 (the map effect), part_001:77 (the centring effect) and
\* geocodeWithNaver: each is  await loadNaverMap()
Callers == {"mapEffect", "centreEffect", "geocode"}

LoaderIdle == awaits = <<>>

LoaderInit ==
    /\ ApiInit /\ GuideInit /\ MapInit /\ WizardInit /\ SearchInit /\ DbInit /\ RouteInit
    /\ DistInit /\ DetailIdle
    /\ LoaderIdle

\* a caller reaches  await loadNaverMap(): the call runs to its return and
\* the caller waits on the promise it got
AwaitLoadNaverMap(who) ==
    /\ Len(awaits) < MaxCallers
    /\ CallLoadNaverMap
    /\ awaits' = Append(awaits, [who |-> who, got |-> LoaderAfterCall, seen |-> "waiting"])
    /\ UNCHANGED notLoader

\* what the promise a caller got has settled with, "pending" when it has not:
\* a promise settles once, and a pending one is the cached one
Outcome(a) == IF a.got # "pending" THEN a.got ELSE naverMapLoader

\* the await of caller i returns or throws
ResumeCaller(i) ==
    /\ i \in 1..Len(awaits)
    /\ awaits[i].seen = "waiting"
    /\ Outcome(awaits[i]) \in {"resolved", "rejected"}
    /\ awaits' = [awaits EXCEPT ![i].seen = Outcome(awaits[i])]
    /\ UNCHANGED mapVars
    /\ UNCHANGED notLoader

LoaderNext ==
    \/ \E who \in Callers : AwaitLoadNaverMap(who)
    \/ \E i \in 1..MaxCallers : ResumeCaller(i)
    \/ ScriptOnLoad
    \/ ScriptOnError

Init == ApiInit /\ GuideInit /\ MapInit /\ WizardInit /\ SearchInit /\ DbInit /\ RouteInit /\ DistInit
        /\ DetailIdle /\ LoaderIdle

SpecApi == Init /\ [][ApiNext]_vars
SpecGuide == Init /\ [][GuideNext]_vars
SpecGeo == Init /\ [][GeoNext]_vars
SpecWizard == Init /\ [][WizardNext]_vars
SpecSearch == Init /\ [][SearchNext]_vars
SpecDb == Init /\ [][DbNext]_vars
SpecRoute == Init /\ [][RouteNext]_vars
SpecDist == Init /\ [][DistNext]_vars
SpecDetail == DetailInit /\ [][DetailNext]_vars
SpecLoader == LoaderInit /\ [][LoaderNext]_vars
\* Every started load, lookup and query settles, and continuations run.
FairSpecWizard == SpecWizard /\ WF_vars(WizardProgress)

----------------------------------------------------------------------------
(* Properties of the /api/chat handler, checked under SpecApi *)

\* C2: a request whose method is not POST is answered with status 405 and an
\* error body, and the invocation neither reads the body nor calls the
\* completion API.
C2_NonPostRejected ==
    (hpc # "idle" /\ req.method # "POST") =>
        /\ hpc = "done"
        /\ responses = <<[status |-> 405, key |-> "error", text |-> MethodNotAllowed]>>
        /\ ~bodyRead
        /\ groqCalls = <<>>

C2_Witness ==
    /\ hpc = "done"
    /\ req.method = "PUT"
    /\ req.body.kind = "array"
    /\ req.body.messages # <<>>
    /\ responses # <<>>

\* C3: every request forwarded to the completion API carries the fixed system
\* message first, then the client's messages unchanged and in order, with the
\* fixed model, temperature 0.3 and max_tokens 512; a POST with a message
\* array is forwarded exactly once.
C3_SystemMessageFirst ==
    /\ \A k \in 1..Len(groqCalls) :
          /\ groqCalls[k].messages[1] = [role |-> "system", content |-> "PajuSafetyGuide"]
          /\ Tail(groqCalls[k].messages) = req.body.messages
          /\ groqCalls[k].model = "llama-3.1-8b-instant"
          /\ groqCalls[k].temperature = 3
          /\ groqCalls[k].max_tokens = 512
    /\ (hpc # "idle" /\ req.method = "POST" /\ req.body.kind = "array")
          => Len(groqCalls) = 1

C3_Witness ==
    /\ Len(groqCalls) = 1
    /\ Len(req.body.messages) = 2
    /\ req.body.messages[1].role = "system"
    /\ req.body.messages[2].role = "user"

\* C4: a finished invocation has sent exactly one response and a running one
\* none yet; a POST whose forward succeeded got 200 with the first choice's
\* content, or the fallback sentence when that content is missing; a POST
\* without a message array or whose forward threw got 500 with an error.
C4_OneResponse ==
    /\ hpc = "done" => Len(responses) = 1
    /\ hpc # "done" => responses = <<>>
    /\ (hpc = "done" /\ req.method = "POST") =>
          IF req.body.kind = "array" /\ ~completion.thrown
          THEN LET present ==
                      /\ completion.choices # <<>>
                      /\ completion.choices[1].hasMessage
                      /\ completion.choices[1].content \notin {NULL, UNDEFINED}
               IN  responses[1] =
                      [status |-> 200, key |-> "reply",
                       text |-> IF present THEN completion.choices[1].content
                                ELSE FallbackReply]
          ELSE responses[1] = [status |-> 500, key |-> "error", text |-> GroqError]

C4_Witness ==
    /\ hpc = "done"
    /\ req.method = "POST"
    /\ completion.choices # <<>>
    /\ completion.choices[1].hasMessage
    /\ completion.choices[1].content = NULL
    /\ responses = <<[status |-> 200, key |-> "reply", text |-> FallbackReply]>>

----------------------------------------------------------------------------
(* Properties of the AI guide screen, checked under SpecGuide *)

Positions(id) == {k \in 1..Len(messages) : messages[k].id = id}
DoneSends == {i \in 1..Len(sends) : sends[i].pc = "done"}

C5_Messages ==
    /\ Len(messages) = 1 + Len(sends) + Cardinality(DoneSends)
    /\ \A i \in 1..Len(sends) :
          /\ Cardinality(Positions(UserId(i))) = 1
          /\ Cardinality(Positions(AssistantId(i))) = IF i \in DoneSends THEN 1 ELSE 0
          /\ \A u \in Positions(UserId(i)) :
                /\ messages[u].role = "user"
                /\ messages[u].content = sends[i].userInput
                /\ Trim(messages[u].content) # <<>>
          /\ \A a \in Positions(AssistantId(i)) :
                /\ messages[a].role = "assistant"
                /\ \A u \in Positions(UserId(i)) : u < a
                /\ (sends[i].outcome \in {"networkError", "notOk"}
                      \/ sends[i].json = "parseError")
                      => messages[a].content = Apology
                /\ (sends[i].outcome = "ok" /\ sends[i].json = "reply")
                      => messages[a].content = AnswerText

C5_Step ==
    /\ Len(sends') # Len(sends) =>
          /\ input' = <<>>
          /\ Len(messages') = Len(messages) + 1
          /\ messages'[Len(messages')].role = "user"
    /\ Trim(input) = <<>> =>
          /\ Len(sends') = Len(sends)
          /\ fetches' = fetches
          /\ \/ messages' = messages
             \/ messages'[Len(messages')].role = "assistant"

\* C5: every handleSend with non-blank input appends exactly one user message
\* and then, whatever the request's outcome, exactly one assistant message (the
\* apology text on a failure) and clears the input field; with a blank input it
\* starts no send, sends nothing and appends no user message.
C5_SendAppendsPair == []C5_Messages /\ [][C5_Step]_vars

C5_Witness ==
    /\ Len(sends) = 2
    /\ sends[1].pc = "done" /\ sends[1].outcome = "notOk"
    /\ sends[2].pc = "done" /\ sends[2].outcome = "networkError"
    /\ Len(messages) = 5
    /\ messages[3].role = "user"

\* C6: each handleSend that passes the blank check issues exactly one POST to
\* /api/chat, whose body holds only the current input with role user, and no
\* request is issued again after a failure.
C6_OneRequestPerSend ==
    /\ Len(fetches) = Len(sends)
    /\ \A i \in 1..Len(fetches) :
          fetches[i] = [url |-> "/api/chat", method |-> "POST",
                        body |-> <<[role |-> "user", content |-> sends[i].userInput]>>]

C6_Witness ==
    /\ Len(sends) = 2
    /\ sends[1].pc = "done" /\ sends[1].outcome = "networkError"
    /\ sends[2].pc = "done"
    /\ Len(fetches) = 2

----------------------------------------------------------------------------
(* Properties of the geocoding functions, checked under SpecGeo *)

OutsideBox(p) ==
    p.lat < 376000 \/ p.lat > 379500 \/ p.lon < 1266000 \/ p.lon > 1271000

\* a returned call with a non-blank query whose first lookup gave a point
\* outside the box
FirstLookupOutside(t) ==
    /\ t.pc = "done"
    /\ Trim(t.raw) # <<>>
    /\ t.outs # <<>>
    /\ t.outs[1].kind = "point"
    /\ OutsideBox(t.outs[1].point[1])

\* C1 as stated: after a first lookup outside the box, exactly one further
\* lookup is made, with the city prefix and the trimmed input.
C1_AlwaysOneFallbackLookup ==
    \A i \in 1..Len(tasks) :
        FirstLookupOutside(tasks[i]) =>
            /\ Len(tasks[i].calls) = 2
            /\ tasks[i].calls[2] = <<"pa", "ju", "si", SP>> \o Trim(tasks[i].raw)

\* C1 (amended): no call makes a third lookup; after a first lookup outside
\* the box, a query that does not contain the city name gets exactly one
\* further lookup, with the city prefix and the trimmed input, and null is
\* returned only after it; a query that contains the city name gets no further
\* lookup and null is returned.
C1_OneFallbackUnlessNamed ==
    \A i \in 1..Len(tasks) :
        /\ Len(tasks[i].calls) <= 2
        /\ FirstLookupOutside(tasks[i]) =>
              IF \E k \in 1..Len(tasks[i].raw) - 1 :
                    tasks[i].raw[k] = "pa" /\ tasks[i].raw[k + 1] = "ju"
              THEN /\ Len(tasks[i].calls) = 1
                   /\ tasks[i].result = <<>>
              ELSE /\ Len(tasks[i].calls) = 2
                   /\ tasks[i].calls[1] = Trim(tasks[i].raw)
                   /\ tasks[i].calls[2] = <<"pa", "ju", "si", SP>> \o Trim(tasks[i].raw)
                   /\ Len(tasks[i].outs) = 2
                   /\ tasks[i].result # <<>> => tasks[i].result = tasks[i].outs[2].point

C1_Witness ==
    \E i \in 1..Len(tasks) :
        /\ FirstLookupOutside(tasks[i])
        /\ tasks[i].copy = "Search"
        /\ tasks[i].raw = <<SP, "ga", SP>>
        /\ tasks[i].calls = <<(<<"ga">>), <<"pa", "ju", "si", SP, "ga">>>>
        /\ tasks[i].outs[2].kind = "point"
        /\ tasks[i].result = <<>>

C9_FailedLoadRejects ==
    naverMapLoader = "rejected" =>
        \A i \in 1..Len(tasks) :
            /\ tasks[i].svc = <<>>
            /\ \A k \in 1..Len(tasks[i].outs) : tasks[i].outs[k].kind = "rejected"
            /\ tasks[i].pc = "done" => Len(tasks[i].outs) = Len(tasks[i].calls)

C9_FailedLoadStays ==
    naverMapLoader = "rejected" => (naverMapLoader' = "rejected" /\ scripts' = scripts)

\* C9: once the load has failed, later loadNaverMap calls start no other load
\* and return the same rejected promise, so every lookup with a non-blank
\* query rejects without reaching the geocoder.
C9_NoReloadAfterFailure == []C9_FailedLoadRejects /\ [][C9_FailedLoadStays]_vars

C9_Witness ==
    /\ naverMapLoader = "rejected"
    /\ scripts = 1
    /\ \E i \in 1..Len(tasks) :
          /\ tasks[i].pc = "done"
          /\ Len(tasks[i].calls) = 2
          /\ tasks[i].outs = <<Rejected, Rejected>>

----------------------------------------------------------------------------
(* Properties of the evacuation wizard, checked under FairSpecWizard *)

C8_Finishes == loadingShelter ~> (~loadingShelter /\ showResults)

C8_Placeholder ==
    (showResults /\ lastQuery.outcome \in {"error", "empty"}) => targetShelter = <<>>

\* C8: once handleStartSimulation has started (loadingShelter is true),
\* loadingShelter eventually returns to false with showResults true, whatever
\* the geocoder and the query answer; after a query error or an empty table
\* the result screen has targetShelter = null.
C8_SimulationCompletes == C8_Finishes /\ []C8_Placeholder

C8_Witness ==
    /\ showResults
    /\ ~loadingShelter
    /\ naverMapLoader = "rejected"
    /\ lastQuery.outcome = "error"
    /\ targetShelter = <<>>
    /\ address = <<"ga">>

----------------------------------------------------------------------------
(* C7 *)

\* The step in which loadShelters receives an error empties both lists and
\* ends the loading state.
C7_ErrorStep ==
    (spc = "query" /\ spc' = "error") =>
        (shelters' = <<>> /\ filteredShelters' = <<>> /\ loading' = FALSE)

\* After the error the instance shows no rows, whatever is searched, and
\* has issued the one query of its mount.
C7_AfterError ==
    spc = "error" =>
        /\ shelters = <<>>
        /\ filteredShelters = <<>>
        /\ loading = FALSE
        /\ shelterQueries = 1

\* Nothing the instance does after the error issues the query again.
C7_NoRequery ==
    (spc = "error" /\ page' = "search") => (spc' = "error" /\ shelterQueries' = 1)

\* C7: if the shelter_facilities query issued when ShelterSearch mounts returns
\* an error, shelters and filteredShelters are set to the empty list and
\* loading becomes false, so that the list renders no rows, and the query is
\* not issued again.
C7_LoadErrorEmptiesList ==
    /\ []C7_AfterError
    /\ [][C7_ErrorStep /\ C7_NoRequery]_vars

\* the mount query failed, and a search was made afterwards
C7_Witness ==
    /\ spc = "error"
    /\ shelterQueries = 1
    /\ lastSearchQuery # <<>>

----------------------------------------------------------------------------
(* C10 *)

\* C10 as stated: no mutable state is shared between screen instances, so a
\* screen instance that is mounted finds nothing an earlier instance left:
\* no cached naverMapLoader promise and no value under quake_lastSearch.
C10_NoStateSharedBetweenInstances ==
    [][(page # "search" /\ page' = "search") =>
            (naverMapLoader' = "null" /\ sessionStorage' = <<>>)]_vars

\* a route change creates the new screen with every piece of component
\* state at its useState initial value and nothing in flight
C10_FreshComponentState ==
    (page' # page) =>
        /\ homeAddress' = <<>>
        /\ searchAddress' = <<>>
        /\ shelters' = <<>>
        /\ filteredShelters' = <<>>
        /\ loading' = TRUE
        /\ userPos' = <<>>
        /\ resultLabel' = DefaultLabel
        /\ searchMode' = "DEFAULT"
        /\ lastSearchQuery' = <<>>
        /\ initialQuery' = <<>>
        /\ shelterQueries' = 0
        /\ searches' = <<>>
        /\ tasks' = <<>>

\* what the mount effects of the search screen take over from an earlier
\* instance is the stored query, which they remove
C10_TakesStoredQuery ==
    (spc = "effects" /\ spc' = "query") =>
        /\ initialQuery' = sessionStorage
        /\ searchAddress' = (IF sessionStorage = <<>> THEN <<>> ELSE sessionStorage[1])
        /\ sessionStorage' = <<>>

\* C10: component state is owned by one mounted screen instance and starts
\* from its initial values at every mount; the mutable state that screen
\* instances share is the module-level naverMapLoader promise and the
\* sessionStorage key quake_lastSearch, which the home page writes and the
\* search screen mounted next reads and removes.
C10_SharedOnlyLoaderAndStorage ==
    [][C10_FreshComponentState /\ C10_TakesStoredQuery]_vars

\* a search screen has just been mounted and finds both the promise an
\* earlier search screen cached and the query the home page stored
C10_Witness ==
    /\ page = "search"
    /\ spc = "effects"
    /\ naverMapLoader # "null"
    /\ sessionStorage # <<>>
    /\ shelters = <<>>
    /\ loading = TRUE

----------------------------------------------------------------------------
(* C11 *)

\* a value appears under quake_lastSearch only when the home page submits a
\* non-blank query, trimmed, in the step that navigates to the search screen;
\* a blank home query stores nothing
C11_StoredOnSubmit ==
    /\ (sessionStorage' # sessionStorage /\ sessionStorage' # <<>>) =>
          /\ page = "home" /\ page' = "search"
          /\ Trim(homeAddress) # <<>>
          /\ sessionStorage' = <<Trim(homeAddress)>>
    /\ (page = "home" /\ Trim(homeAddress) = <<>>) => sessionStorage' = sessionStorage

\* the search screen's mount effects take the stored query and remove the key
C11_ReadAndRemoved ==
    (spc = "effects" /\ spc' = "query") =>
        (initialQuery' = sessionStorage /\ sessionStorage' = <<>>)

\* handleSearchClick(initialQuery) has been called in the new state: it has
\* returned and the effect cleared initialQuery, or it awaits its geocode
AutoSearchRan(q) ==
    \/ initialQuery' = <<>>
    \/ \E i \in 1..Len(searches') : searches'[i].auto /\ searches'[i].q = Trim(q)

\* the step that finishes the shelter load runs the search for the query
C11_SearchedAfterLoad ==
    (spc = "query" /\ spc' \in {"ok", "error"} /\ initialQuery # <<>>) =>
        AutoSearchRan(initialQuery[1])

\* the step that finishes the shelter load runs the search for the query if
\* at least one shelter was loaded, and otherwise leaves the query unsearched
C11_SearchedIfLoaded ==
    (spc = "query" /\ spc' \in {"ok", "error"} /\ initialQuery # <<>>) =>
        IF shelters' # <<>>
        THEN AutoSearchRan(initialQuery[1])
        ELSE /\ initialQuery' = initialQuery
             /\ \A i \in 1..Len(searches') : ~searches'[i].auto

\* the search for the query is started by no other step, so at most once
C11_AtMostOnce ==
    /\ \A i, j \in 1..Len(searches') : (searches'[i].auto /\ searches'[j].auto) => i = j
    /\ (\E i \in 1..Len(searches') : searches'[i].auto) =>
          \/ \E i \in 1..Len(searches) : searches[i].auto
          \/ spc = "query" /\ spc' = "ok"
    /\ (initialQuery # <<>> /\ initialQuery' = <<>> /\ page' = page) =>
          \/ \E i \in 1..Len(searches) : searches[i].auto
          \/ spc = "query" /\ spc' = "ok"

\* C11: a non-blank query submitted on the home page is stored under
\* quake_lastSearch before navigating to the search screen; the search screen
\* mounted next reads it, removes the key and, once the shelter load has
\* finished, runs handleSearchClick with that query exactly once; a blank
\* home query stores nothing.
C11_HomeQuerySearchedOnce ==
    [][C11_StoredOnSubmit /\ C11_ReadAndRemoved /\ C11_SearchedAfterLoad
       /\ C11_AtMostOnce]_vars

\* C11 with the condition of the effect: the query is searched, once, when
\* the load has finished with at least one shelter, and never when the load
\* failed or returned no row.
C11_HomeQuerySearchedIfLoaded ==
    [][C11_StoredOnSubmit /\ C11_ReadAndRemoved /\ C11_SearchedIfLoaded
       /\ C11_AtMostOnce]_vars

\* the search for the home page's query awaits its geocode
C11_Witness ==
    /\ spc = "ok"
    /\ initialQuery # <<>>
    /\ \E i \in 1..Len(searches) : searches[i].auto /\ searches[i].q = Trim(initialQuery[1])

----------------------------------------------------------------------------
(* C12 *)

\* C12: in every reachable state of the evacuation wizard step is one of 1, 2,
\* 3, 4, and a step is only reached with the inputs of all earlier steps set:
\* step >= 2 implies a non-empty address, step >= 3 a housingType, step = 4 a
\* familySize.
C12_StepsHaveInputs ==
    /\ step \in {1, 2, 3, 4}
    /\ step >= 2 => address # <<>>
    /\ step >= 3 => housingType # NULL
    /\ step = 4 => familySize # NULL

\* the last step, reached again after going back to the first step and
\* retyping the address as a single blank
C12_Witness ==
    /\ step = 4
    /\ address = <<SP>>
    /\ magnitude # NULL
    /\ ~showResults

----------------------------------------------------------------------------
(* C13 *)

\* C13: under the row-level-security policies the only data modification that
\* roles anon and authenticated can perform is INSERT into user_searches and
\* chatbot_conversations: no request changes shelters, earthquakes or
\* fault_lines, and no request updates or deletes a row of any table.
C13_OnlyLogInserts ==
    [][\A t \in Tables :
          db'[t] # db[t] =>
              /\ t \in {"user_searches", "chatbot_conversations"}
              /\ db[t] \subseteq db'[t]]_vars

\* both logs have been written by clients, the sample data is as migrated
C13_Witness ==
    /\ db["user_searches"] # {}
    /\ db["chatbot_conversations"] # {}
    /\ db["shelters"] = {SeedRow}

----------------------------------------------------------------------------
(* C14 *)

\* what a SELECT on user_searches returned: to an authenticated user rows
\* with their own uid only, to the anon role nothing
C14_ReadsOwnRows ==
    lastRead.table = "user_searches" =>
        IF lastRead.session.role = "authenticated"
        THEN \A r \in lastRead.rows : r.user_id = lastRead.session.uid
        ELSE lastRead.rows = {}

\* every row an authenticated user inserted carries that user's uid
C14_InsertsOwnRows ==
    \A r \in db["user_searches"] : r.by \in Uids => r.user_id = r.by

\* C14: access to user_searches is user-specific: an authenticated user reads
\* only rows whose user_id is their own uid and inserts only rows carrying
\* their own uid, and the anon role reads no row of user_searches.
C14_UserSpecificAccess == C14_ReadsOwnRows /\ C14_InsertsOwnRows

----------------------------------------------------------------------------
(* C15 *)

\* pathToPage(pageToPath[p]) = p for each of the five pages
C15_RoundTrip == \A p \in Pages : pathToPage(pageToPath[p]) = p

\* the path the router is at maps to home unless it is the path of a page
C15_DefaultsToHome ==
    pathname \notin {pageToPath[p] : p \in Pages} => pathToPage(pathname) = "home"

\* handleNavigate with an unknown page name navigates to '/'
C15_UnknownNavigatesHome ==
    (navArg # NoNavigation /\ navArg \notin Pages) => navigated = "/"

\* a path without a route renders the home screen
C15_NoRouteRendersHome ==
    MatchedRoute(pathname) = "*" => RouteElement(pathname) = "HomePage"

----------------------------------------------------------------------------
(* C16 *)

\* what the fixed-point evaluation may differ by from the double-precision
\* value, in millimetres (a few microradians of arc)
DIST_TOLERANCE_MM == 30000

C16_Applied == distArgs # NoArgs

Near(x, y) == Abs(x - y) <= DIST_TOLERANCE_MM

\* both copies return the haversine distance with earth radius 6371
C16_IsHaversine ==
    C16_Applied =>
        /\ Near(distEvac, HaversineMm[distArgs])
        /\ Near(distSearch, HaversineMm[distArgs])

\* zero for identical points
C16_ZeroForIdentical ==
    (C16_Applied /\ distArgs[1] = distArgs[3] /\ distArgs[2] = distArgs[4]) =>
        distEvac = 0 /\ distSearch = 0

\* symmetric in the two points
C16_Symmetric ==
    C16_Applied =>
        /\ distEvac = calcDistanceKmEvac(distArgs[3], distArgs[4], distArgs[1], distArgs[2])
        /\ distSearch = calcDistanceKmSearch(distArgs[3], distArgs[4], distArgs[1], distArgs[2])

\* C16: for any two coordinate pairs calcDistanceKm returns the haversine
\* great-circle distance with earth radius 6371 km, zero for identical
\* points and symmetric in its two points, and the wizard's copy and the
\* search screen's copy return the same value for the same inputs.
C16_HaversineBothCopies ==
    /\ C16_IsHaversine
    /\ C16_ZeroForIdentical
    /\ C16_Symmetric
    /\ C16_Applied => distEvac = distSearch

\* both copies have measured the 34.5 km between two different points
C16_Witness ==
    /\ distArgs = <<377000, 1267000, 379000, 1270000>>
    /\ distEvac > 34000000
    /\ distSearch = distEvac

----------------------------------------------------------------------------
(* C17 *)

\* 37.6 <= lat <= 37.95 and 126.6 <= lon <= 127.1
InBox(p) ==
    /\ 376000 <= p.lat /\ p.lat <= 379500
    /\ 1266000 <= p.lon /\ p.lon <= 1271000

\* a call that returned, returned null or a point of the box
C17_NullOrInBox ==
    \A i \in 1..Len(tasks) :
        /\ tasks[i].pc # "done" => tasks[i].result = <<>>
        /\ tasks[i].result # <<>> => InBox(tasks[i].result[1])

\* a blank query has returned null, and made no lookup
C17_BlankNoLookup ==
    \A i \in 1..Len(tasks) :
        Trim(tasks[i].raw) = <<>> =>
            /\ tasks[i].pc = "done"
            /\ tasks[i].result = <<>>
            /\ tasks[i].calls = <<>>
            /\ tasks[i].svc = <<>>

\* a lookup that rejected counts as a miss: the call goes on to its second
\* lookup where a miss would, returns null otherwise, and never throws
C17_RejectionIsMiss ==
    \A i \in 1..Len(tasks) :
        /\ tasks[i].pc # "threw"
        /\ \A k \in 1..Len(tasks[i].outs) :
              tasks[i].outs[k].kind = "rejected" =>
                  /\ (k = 1 /\ ~Includes(tasks[i].clean, Paju)) => Len(tasks[i].calls) = 2
                  /\ (k = 1 /\ Includes(tasks[i].clean, Paju)) => tasks[i].pc = "done"
                  /\ k = 2 => tasks[i].pc = "done"
                  /\ tasks[i].pc = "done" /\ k = Len(tasks[i].outs) => tasks[i].result = <<>>

\* C17: geocodeWithPajuFallback (both copies) never yields a point outside
\* the Paju bounding box: its result is null or a point with
\* 37.6 <= lat <= 37.95 and 126.6 <= lon <= 127.1; a blank query returns
\* null without any lookup, and a lookup that rejects is treated as a miss
\* and never propagates out of the function.
C17_FallbackStaysInPaju ==
    /\ C17_NullOrInBox
    /\ C17_BlankNoLookup
    /\ C17_RejectionIsMiss

\* the search screen's copy was answered with a point just east of the box,
\* looked up again and returned the north-east corner of the box
C17_Witness ==
    \E i \in 1..Len(tasks) :
        /\ tasks[i].copy = "Search"
        /\ tasks[i].pc = "done"
        /\ Len(tasks[i].outs) = 2
        /\ tasks[i].outs[1] = Found(Point(379500, 1271001))
        /\ tasks[i].result = <<Point(379500, 1271000)>>

----------------------------------------------------------------------------
(* C18 *)

HasCoordinates(row) == row.lat # <<>> /\ row.lon # <<>>

\* the distance of a row with coordinates to the geocoded point
DistanceTo(geo, row) == calcDistanceKmEvac(geo.lat, geo.lon, row.lat[1], row.lon[1])

\* the rows of the last query that findNearestShelter may have returned: a
\* row's name, road address and capacity are what it returns
ReturnedRows ==
    {k \in 1..Len(lastQuery.data) :
        targetShelter # <<>> /\ targetShelter[1].name = lastQuery.data[k].name}

\* geocoding succeeded and a row of the result has coordinates
C18_Case ==
    /\ lastQuery.outcome = "rows"
    /\ lastQuery.geo # <<>>
    /\ \E k \in 1..Len(lastQuery.data) : HasCoordinates(lastQuery.data[k])

\* C18: when geocoding succeeds and the shelter query returns at least one
\* row with coordinates, findNearestShelter returns a row no farther from the
\* geocoded point than any other row with coordinates, the first such row in
\* result order on ties; a row without lat or lon is never chosen over a row
\* with coordinates.
C18_ReturnsNearestRow ==
    C18_Case =>
        /\ targetShelter # <<>>
        /\ \E k \in ReturnedRows :
              /\ targetShelter[1] = NearestOf(lastQuery.data[k])
              /\ HasCoordinates(lastQuery.data[k])
              /\ \A j \in 1..Len(lastQuery.data) :
                    HasCoordinates(lastQuery.data[j]) =>
                        LET dk == DistanceTo(lastQuery.geo[1], lastQuery.data[k])
                            dj == DistanceTo(lastQuery.geo[1], lastQuery.data[j])
                        IN  /\ dk <= dj
                            /\ dk = dj => k <= j

\* two rows at the same place, the one with the larger serial first: the
\* first is returned
C18_Witness ==
    /\ C18_Case
    /\ Len(lastQuery.data) = 2
    /\ HasCoordinates(lastQuery.data[1])
    /\ lastQuery.data[1].lat = lastQuery.data[2].lat
    /\ lastQuery.data[1].lon = lastQuery.data[2].lon
    /\ lastQuery.data[1].facility_serial > lastQuery.data[2].facility_serial
    /\ targetShelter = <<NearestOf(lastQuery.data[1])>>

----------------------------------------------------------------------------
(* C19 *)

\* findNearestShelter has returned
C19_Returned == lastQuery.outcome # "none"

\* name, road address or '', capacity or null of the first row
C19_FirstRow ==
    [name |-> lastQuery.data[1].name,
     address |-> IF lastQuery.data[1].road_addr = <<>> THEN <<>>
                 ELSE lastQuery.data[1].road_addr[1],
     capacity |-> lastQuery.data[1].capacity]

\* C19: findNearestShelter returns null if and only if the shelter query
\* returns an error or no rows; when the query returns rows but geocoding
\* yields no point in Paju, it returns the first row of the result (name,
\* road address or '', capacity or null) instead of null.
C19_NullIffNoRows ==
    C19_Returned =>
        /\ targetShelter = <<>> <=> lastQuery.outcome \in {"error", "empty"}
        /\ (lastQuery.outcome = "rows" /\ lastQuery.geo = <<>>) =>
              targetShelter = <<C19_FirstRow>>

\* geocoding gave nothing and the first of two rows, which has neither a
\* road address nor a capacity, was returned
C19_Witness ==
    /\ lastQuery.outcome = "rows"
    /\ lastQuery.geo = <<>>
    /\ Len(lastQuery.data) = 2
    /\ lastQuery.data[1].road_addr = <<>>
    /\ lastQuery.data[1].capacity = <<>>
    /\ targetShelter = <<[name |-> lastQuery.data[1].name, address |-> <<>>, capacity |-> <<>>]>>

----------------------------------------------------------------------------
(* C20 *)

MinOf(a, b) == IF a < b THEN a ELSE b

HasPosition(s) == s.lat # <<>> /\ s.lon # <<>>

\* this step ends an address search whose geocode succeeded, and leaves no
\* search in flight
C20_SearchCompletes ==
    /\ page = "search" /\ page' = "search"
    /\ Len(searches') < Len(searches)
    /\ searches' = <<>>
    /\ userPos' # <<>>

\* fs is n shelters of sh in non-decreasing distance from p, those without
\* coordinates last, and no shelter of sh left out is strictly closer
NearestOfLoaded(fs, sh, p, n) ==
    /\ Len(fs) = n
    /\ \A k \in 1..Len(fs) : \E m \in 1..Len(sh) : sh[m] = fs[k]
    /\ \A j, k \in 1..Len(fs) : j # k => fs[j].facility_serial # fs[k].facility_serial
    /\ \A j, k \in 1..Len(fs) :
          j < k => /\ PointKey(p, fs[j]) <= PointKey(p, fs[k])
                   /\ ~HasPosition(fs[j]) => ~HasPosition(fs[k])
    /\ \A m \in 1..Len(sh) :
          (\A k \in 1..Len(fs) : fs[k] # sh[m]) =>
              \A k \in 1..Len(fs) : ~(PointKey(p, sh[m]) < PointKey(p, fs[k]))

C20_Result ==
    /\ NearestOfLoaded(filteredShelters', shelters', userPos'[1],
                       MinOf(NEARBY_LIMIT, Len(shelters')))
    /\ searchMode' = "ADDRESS"
    /\ resultLabel'.kind = "address"
    /\ resultLabel'.n = Len(filteredShelters')

\* C20: after an address search whose geocode succeeds at point P completes
\* with no other search in flight, filteredShelters holds min(10, number of
\* loaded shelters) shelters in non-decreasing distance from P with shelters
\* lacking coordinates last, no omitted shelter is strictly closer to P than
\* an included one, searchMode = 'ADDRESS', userPos = P, and the count in
\* resultLabel equals filteredShelters.length.
C20_AddressSearchResult == [][C20_SearchCompletes => C20_Result]_vars

\* the same of a search that was issued with the list the screen now holds
C20_ResultOfLoadedList ==
    [][(C20_SearchCompletes /\ searches[1].shelters = shelters) => C20_Result]_vars

----------------------------------------------------------------------------
(* C21 *)

\* trimmed, the query is non-empty, has no digit and ends in a suffix of an
\* administrative region
C21_RegionQuery(q) ==
    /\ q # <<>>
    /\ ~ \E k \in 1..Len(q) : q[k] = "1"
    /\ q[Len(q)] \in {"dong", "eup", "myeon", "ri", "si", "gun", "gu"}

\* the positions of the shelters of sh whose road_addr contains q
C21_InRegion(sh, q) ==
    {k \in 1..Len(sh) : sh[k].road_addr # <<>> /\ Includes(sh[k].road_addr[1], q)}

\* fs is the shelters of sh whose road_addr contains q, in the order of sh
C21_RegionList(fs, sh, q) ==
    /\ Len(fs) = Cardinality(C21_InRegion(sh, q))
    /\ \A k \in C21_InRegion(sh, q) :
          fs[Cardinality({j \in C21_InRegion(sh, q) : j <= k})] = sh[k]

\* the step showed the region list of query q over the shelters sh
C21_ShownAsRegion(q) ==
    /\ resultLabel' = [kind |-> "region", text |-> q, n |-> 0]

\* what a region search of query q over the shelters sh does
C21_RegionSearch(q, sh) ==
    /\ C21_RegionList(filteredShelters', sh, q)
    /\ searchMode' = "REGION"
    /\ userPos' = <<>>
    /\ lastSearchQuery' = <<q>>
    /\ tasks' = tasks
    /\ Len(searches') = Len(searches)
    /\ <<naverMapLoader', scripts'>> = <<naverMapLoader, scripts>>

\* a search from the search box, and the search the screen starts on its
\* own for the query of the home page once the shelters are loaded
C21_Step ==
    /\ HandleSearchClick =>
          /\ C21_ShownAsRegion(Trim(searchAddress)) <=> C21_RegionQuery(Trim(searchAddress))
          /\ C21_RegionQuery(Trim(searchAddress)) =>
                C21_RegionSearch(Trim(searchAddress), shelters)
    /\ (spc = "query" /\ spc' = "ok" /\ initialQuery # <<>> /\ shelters' # <<>>) =>
          /\ C21_ShownAsRegion(Trim(initialQuery[1])) <=> C21_RegionQuery(Trim(initialQuery[1]))
          /\ C21_RegionQuery(Trim(initialQuery[1])) =>
                C21_RegionSearch(Trim(initialQuery[1]), shelters')

\* C21: a query is handled as an administrative-region search if and only
\* if, trimmed, it is non-empty, contains no digit and ends in one of the
\* seven region suffixes; such a search makes no geocode call and sets
\* filteredShelters to exactly the loaded shelters whose road_addr contains
\* the query, in loaded order, searchMode = 'REGION', userPos = null and
\* lastSearchQuery = the query.
C21_RegionSearchIffRegionQuery == [][C21_Step]_vars

\* a region search has kept one of two loaded shelters
C21_Witness ==
    /\ page = "search"
    /\ searchMode = "REGION"
    /\ resultLabel.kind = "region"
    /\ lastSearchQuery = <<(<<"pa", "ju", "si">>)>>
    /\ Len(shelters) = 2
    /\ Len(filteredShelters) = 1
    /\ filteredShelters[1] = shelters[1]

----------------------------------------------------------------------------
(* C22 *)

\* the state a search of query q without result leaves
C22_NoResult(q) ==
    /\ filteredShelters' = <<>>
    /\ userPos' = <<>>
    /\ searchMode' = "REGION"
    /\ lastSearchQuery' = <<q>>
    /\ resultLabel' = [kind |-> "noResult", text |-> <<>>, n |-> 0]
    /\ shelters' = shelters

\* a query that is neither blank nor a region query
C22_AddressQuery(text) == Trim(text) # <<>> /\ ~isAdministrativeQuery(Trim(text))

\* the geocoder's last answer to search i is a miss and the search ends
C22_LastLookupMisses ==
    \A i \in 1..Len(tasks) :
        (SearchGeoCallback(i, Miss) /\ Len(searches') < Len(searches)) =>
            C22_NoResult(searches[i].q)

\* the script fails to load and every lookup of every waiting search throws
C22_LookupsThrow ==
    (SearchScriptOnError /\ searches # <<>>) =>
        \E i \in 1..Len(searches) : C22_NoResult(searches[i].q)

\* the search is issued after the script failed: its lookups throw at once
C22_ThrowsAtOnce ==
    (HandleSearchClick /\ C22_AddressQuery(searchAddress) /\ Len(searches') = Len(searches)) =>
        C22_NoResult(Trim(searchAddress))

\* C22: when a non-region query cannot be geocoded to a point inside Paju
\* (its lookups miss or throw), the search ends with filteredShelters = [],
\* userPos = null, searchMode = 'REGION', lastSearchQuery = the trimmed
\* query and the no-results label, and the loaded shelters are left
\* unchanged.
C22_NoPointNoResult ==
    [][C22_LastLookupMisses /\ C22_LookupsThrow /\ C22_ThrowsAtOnce]_vars

\* both lookups of a query were answered with a miss while shelters were
\* loaded
C22_Witness ==
    /\ page = "search"
    /\ naverMapLoader = "resolved"
    /\ shelters # <<>>
    /\ filteredShelters = <<>>
    /\ userPos = <<>>
    /\ searchMode = "REGION"
    /\ lastSearchQuery = <<(<<"1", "si">>)>>
    /\ resultLabel.kind = "noResult"
    /\ searches = <<>>

----------------------------------------------------------------------------
(* C23 *)

\* the distance of a shelter from the city centre (37.7599, 126.78);
\* shelters without coordinates come after all others
C23_FromCentre(s) ==
    IF s.lat # <<>> /\ s.lon # <<>>
    THEN calcDistanceKmSearch(377599, 1267800, s.lat[1], s.lon[1])
    ELSE MAX_VALUE

\* where shelter k of sh stands in the list ordered by distance from the
\* centre, shelters at the same distance in the order of sh
C23_Rank(sh, k) ==
    Cardinality({j \in 1..Len(sh) :
        \/ C23_FromCentre(sh[j]) < C23_FromCentre(sh[k])
        \/ C23_FromCentre(sh[j]) = C23_FromCentre(sh[k]) /\ j <= k})

\* fs is all of sh ordered by distance from the centre
C23_DefaultList(fs, sh) ==
    /\ Len(fs) = Len(sh)
    /\ \A k \in 1..Len(sh) : fs[C23_Rank(sh, k)] = sh[k]

\* a search with a blank query from the search box
C23_BlankSearch ==
    (HandleSearchClick /\ Trim(searchAddress) = <<>>) =>
        /\ userPos' = <<>>
        /\ searchMode' = "DEFAULT"
        /\ lastSearchQuery' = <<>>
        /\ resultLabel' = SearchInitialState.resultLabel
        /\ C23_DefaultList(filteredShelters', shelters)
        /\ tasks' = tasks
        /\ Len(searches') = Len(searches)
        /\ <<naverMapLoader', scripts'>> = <<naverMapLoader, scripts>>

\* what the initial load displays, when no search of a home page query
\* follows it
C23_InitialLoad ==
    (spc = "query" /\ spc' = "ok" /\ ~AutoSearchDue(initialQuery, FALSE, shelters')) =>
        C23_DefaultList(filteredShelters', shelters')

\* C23: searching with a blank query from any search state restores the
\* default view without any geocode call: userPos = null, searchMode =
\* 'DEFAULT', lastSearchQuery = null, resultLabel = the default label, and
\* filteredShelters = all loaded shelters ordered by distance from the city
\* centre, the same list the initial load displays.
C23_BlankRestoresDefault == [][C23_BlankSearch /\ C23_InitialLoad]_vars

\* a blank search has put two loaded shelters in the other order while an
\* address search was waiting for the geocoder
C23_Witness ==
    /\ page = "search"
    /\ searchAddress = <<>>
    /\ searchMode = "DEFAULT"
    /\ Len(shelters) = 2
    /\ filteredShelters = <<shelters[2], shelters[1]>>
    /\ searches # <<>>

----------------------------------------------------------------------------
(* C24 *)

\* the list shows distances only in an address search
C24_ListDistances ==
    /\ \A k \in 1..Len(filteredShelters) :
          (CardShowsDistance(k) \/ CardDistance(k) # <<>>) => searchMode = "ADDRESS"
    /\ SummaryShown => searchMode = "ADDRESS"

\* ShelterDetail receives a position only in an address search
C24_DetailPosition ==
    (viewMode = "detail" /\ DetailUserPos # <<>>) => searchMode = "ADDRESS"

\* the guide button opens a route only in an address search with a
\* position, and nothing otherwise
C24_GuideOpensRoute ==
    /\ opened.kind = "route" => searchMode = "ADDRESS" /\ userPos # <<>>
    /\ ~(searchMode = "ADDRESS" /\ userPos # <<>>) => opened.kind \notin {"route"}

\* C24: distance information and route guidance are available only for
\* address searches: the list shows distances only when searchMode =
\* 'ADDRESS', ShelterDetail receives a non-null userPos only when searchMode
\* = 'ADDRESS', and the guide action opens a route URL only when searchMode
\* = 'ADDRESS' and userPos is non-null (otherwise it opens nothing).
C24_DistancesOnlyForAddress ==
    /\ C24_ListDistances
    /\ C24_DetailPosition
    /\ C24_GuideOpensRoute

\* the guide button of a detail screen opened from an address search has
\* opened the route from the searched position
C24_Witness ==
    /\ viewMode = "detail"
    /\ searchMode = "ADDRESS"
    /\ opened.kind = "route"
    /\ opened.from = userPos

----------------------------------------------------------------------------
\* C25: however many callers reach  await loadNaverMap()  and however their
\* calls interleave with the script's load, at most one script element is
\* appended to the document; none is appended when window.naver.maps
\* already existed at the first call; and every caller whose await has
\* returned or thrown observed the same outcome.

C25_AtMostOneScript == scripts <= 1

\* the first call found window.naver.maps: its promise was resolved at once
C25_LoadedAtFirstCall == awaits # <<>> /\ awaits[1].got = "resolved"

C25_NoneWhenLoaded == C25_LoadedAtFirstCall => scripts = 0

C25_SameOutcome ==
    \A i \in 1..Len(awaits), j \in 1..Len(awaits) :
        awaits[i].seen # "waiting" /\ awaits[j].seen # "waiting"
            => awaits[i].seen = awaits[j].seen

C25_OneScriptOneOutcome ==
    C25_AtMostOneScript /\ C25_NoneWhenLoaded /\ C25_SameOutcome

\* three callers, one of each kind, the first of which started the load, the
\* others called while it was pending, and all of which saw it resolve
C25_Witness ==
    /\ Len(awaits) = 3
    /\ {awaits[i].who : i \in 1..3} = Callers
    /\ \A i \in 1..3 : awaits[i].got = "pending" /\ awaits[i].seen = "resolved"
    /\ scripts = 1

\* the other cases the claim covers
C25_SeenLoaded ==
    /\ Len(awaits) = 3 /\ C25_LoadedAtFirstCall /\ keyDefined
    /\ \A i \in 1..3 : awaits[i].seen = "resolved"
C25_SeenRejected ==
    /\ Len(awaits) = 3 /\ scripts = 1 /\ awaits[3].got = "rejected"
    /\ \A i \in 1..3 : awaits[i].seen = "rejected"

----------------------------------------------------------------------------
\* C26: when searches overlap (handleSearchClick is called again while an
\* earlier call still waits for the geocoder), then once none of them is
\* waiting any more the screen shows the result of the call made last,
\* computed over the shelters that call was made with.

\* the step after which no search of the open screen is waiting
C26_AllResolved == page' = "search" /\ searches # <<>> /\ searches' = <<>>

\* the search whose continuation runs last in that step
C26_Last == searches[IF Len(searches) = 1 THEN 1 ELSE LastToFinish]

\* what a search can show when it finishes, over the shelters it was made with
C26_Results(s) ==
    {NoResultView(s.q)} \cup
    {AddressView(s.q, s.shelters, a.point[1], used) :
        a \in SearchAnswers \ {Miss}, used \in {s.q, Prefixed(s.q)}}

C26_LatestSearchShown ==
    [][C26_AllResolved => (~C26_Last.newer /\ CurrentView' \in C26_Results(C26_Last))]_vars

\* What the code gives instead: the screen shows the result of the search
\* that finished last, whichever was called last.
C26_LastFinishedShown ==
    [][C26_AllResolved => CurrentView' \in C26_Results(C26_Last)]_vars

\* a search finishes last although a later call has been made
C26_Overtaken ==
    /\ page = "search" /\ Len(searches) = 1 /\ searches[1].newer
    /\ tasks[1].pc = "geo"

====
